---- MODULE Spec2Model ----
(***************************************************************************)
(* Verification model of the Mafia game engine (mafia_core.py) and of the  *)
(* vote step of its command-line driver (main.py).                         *)
(*                                                                         *)
(* SpecEngine hands game states to mafia_kill and check_win; SpecTally     *)
(* hands vote maps to tally_votes_plurality and applies the result as the  *)
(* driver does.  Each behaviour makes one call: pc names the call that has *)
(* returned, and the variables after pc hold what it was given and what it *)
(* returned.                                                               *)
(*                                                                         *)
(* Strings of the program are sequences of characters; a character is a    *)
(* one-syllable string written in Latin letters ("min","su" spell the      *)
(* name Minsu).  Player names are used as dictionary keys under the ids    *)
(* You, Minsu, ...; Spell gives the characters of an id wherever the code  *)
(* looks at the text of a name.                                            *)
(***************************************************************************)
EXTENDS Integers, Sequences, FiniteSets, TLC

VARIABLES
    round,                    \* GameState.round
    phase,                    \* GameState.phase
    role,                     \* Player.role, by player name
    alive,                    \* Player.alive, by player name
    log,                      \* GameState.log
    dialogue_history,         \* GameState.dialogue_history
    last_line_by_name,        \* GameState.last_line_by_name
    dialogue_round_start_idx, \* GameState.dialogue_round_start_idx
    pc,                       \* position of the caller: the last operation that returned
    killed,                   \* value returned by the last mafia_kill call
    win,                      \* value returned by the last check_win call
    v_dict,                   \* vote map handed to tally_votes_plurality
    allow_no_lynch,           \* allow_no_lynch handed to tally_votes_plurality
    executed,                 \* first component returned by tally_votes_plurality
    counter,                  \* second component returned by tally_votes_plurality
    mention_counts,           \* value returned by the last mention_counts_for_today call
    top_two,                  \* value returned by the last top_two_mentions call
    driver,                   \* the program that runs the game: main.py or one of the two UIs
    ui_phase,                 \* S["phase"] of the UI session state
    first_night_done,         \* S["first_night_done"] of the UI session state
    day_start_idx,            \* S["day_start_idx"] of the UI session state
    discuss_turns,            \* discussion turns taken so far in this game
    response,                 \* character_lines of the last reply of the text service
    lines_written,            \* transcript lines written so far in this game
    llm_reply,                \* what the text service sent for the last discussion request
    mem_file,                 \* what the file of the MemoryStore holds
    mem_data,                 \* MemoryStore.data
    snapshot,                 \* value returned by the last build_prompt_snapshot call
    raised,                   \* the exception the last call let escape, None when it returned
    vote_input                \* what the human entered in the last vote step

\* The fields of GameState.
gsVars == <<round, phase, role, alive, log, dialogue_history, last_line_by_name,
            dialogue_round_start_idx>>

\* What the calls were given and what they returned.
callVars == <<killed, win, v_dict, allow_no_lynch, executed, counter, mention_counts,
              top_two>>

\* The session state of a driver besides its GameState.
sessionVars == <<driver, ui_phase, first_night_done, day_start_idx, discuss_turns,
                 response, lines_written>>

\* The text service, the memory store, the outcome of a call and the human's
\* vote input.
storeVars == <<llm_reply, mem_file, mem_data, snapshot, raised, vote_input>>

vars == <<gsVars, pc, callVars, sessionVars, storeVars>>

(***************************************************************************)
(* Bounds of the model.                                                    *)
(***************************************************************************)
MaxRound == 2
MaxOld == 2
MaxVoters == 3
MaxHist == 2
MaxTurns == 2
MaxTranscript == 9
MaxCliRound == 4

(***************************************************************************)
(* Names, roles, phases.                                                   *)
(***************************************************************************)
None == "None"

Human == "You"

Roster == <<"You", "Minsu", "Jiyeon", "Hyunwoo", "Sua", "Harin", "Taehoon">>

Names == {Roster[i] : i \in 1..Len(Roster)}

NoLynchLabel == "NoLynch"

KillWindow == 30

Spell(n) ==
    CASE n = "You"     -> <<"dang", "sin">>
      [] n = "Minsu"   -> <<"min", "su">>
      [] n = "Jiyeon"  -> <<"ji", "yeon">>
      [] n = "Hyunwoo" -> <<"hyeon", "u">>
      [] n = "Sua"     -> <<"su", "a">>
      [] n = "Harin"   -> <<"ha", "rin">>
      [] n = "Taehoon" -> <<"tae", "hun">>
      [] n = "NoLynch" -> <<"mu", "cheo", "hyeong">>
      [] OTHER         -> <<"?">>

\* Empty dictionary.
EmptyDict == <<>>

\* Python's `name in line`: name occurs as a contiguous substring of line.
Contains(name, line) ==
    \/ Len(name) = 0
    \/ \E i \in 1..(Len(line) - Len(name) + 1) :
          SubSeq(line, i, i + Len(name) - 1) = name

\* The elements of list s that belong to keep, in the order of s.
RECURSIVE Filter(_, _)
Filter(s, keep) ==
    IF s = <<>> THEN <<>>
    ELSE (IF Head(s) \in keep THEN <<Head(s)>> ELSE <<>>) \o Filter(Tail(s), keep)

Range(s) == {s[i] : i \in 1..Len(s)}

(***************************************************************************)
(* GameState utilities.                                                    *)
(***************************************************************************)
alive_players(al) == Filter(Roster, {n \in Names : al[n]})

mafia_alive(al, ro) == Cardinality({n \in Names : al[n] /\ ro[n] = "MAFIA"})

citizen_alive(al, ro) == Cardinality({n \in Names : al[n] /\ ro[n] = "CITIZEN"})

\* The mafia looked up without the alive test.
get_current_mafia_any(al, ro) ==
    LET all == Filter(Roster, {n \in Names : ro[n] = "MAFIA"})
    IN  IF all = <<>> THEN None ELSE Head(all)

get_current_mafia(al, ro) ==
    LET living == Filter(Roster, {n \in Names : al[n] /\ ro[n] = "MAFIA"})
    IN  IF living = <<>> THEN None ELSE Head(living)

\* A check that never reports a win.
check_win_never(al, ro) == None

check_win(al, ro) ==
    LET m == mafia_alive(al, ro)
        c == citizen_alive(al, ro)
    IN  IF m = 0 THEN "CITIZEN_WIN"
        ELSE IF m >= c THEN "MAFIA_WIN"
        ELSE None

(***************************************************************************)
(* mafia_kill.                                                             *)
(***************************************************************************)
\* A window that takes the whole transcript.
KillWindowWhole(hist) == hist

\* window = dialogue_history[max(0, len(dialogue_history) - 30):]
KillWindowOf(hist) ==
    SubSeq(hist, (IF Len(hist) - KillWindow > 0 THEN Len(hist) - KillWindow ELSE 0) + 1,
           Len(hist))

\* counts[n]: the number of lines of the window that contain the name n.
KillCounts(cands, hist) ==
    [n \in cands |->
        Cardinality({i \in 1..Len(KillWindowOf(hist)) :
                        Contains(Spell(n), KillWindowOf(hist)[i])})]

\* The names random.choice can return in mafia_kill.
KillPool(cands, hist) ==
    LET counts == KillCounts(cands, hist)
    IN  IF \E n \in cands : counts[n] # 0
        THEN {n \in cands : \A o \in cands : counts[o] <= counts[n]}
        ELSE cands

\* The first-night test made on round 0.
FirstNightOffByOne(r) == r = 0

\* if gs.round == 1
FirstNight(r) == r = 1

\* Candidates that leave the mafia in.
KillCandidatesAll(al, mafia_name) == {n \in Names : al[n]}

\* candidates = [n for n in alive if n != mafia_name]
KillCandidates(al, mafia_name) == {n \in Names : al[n] /\ n # mafia_name}

FirstNightEntry == <<"first_night_peaceful">>

NightDeathEntry(n) == <<"night_death", n>>

MafiaKill ==
    /\ pc = "ready"
    /\ pc' = "mafia_kill"
    /\ IF FirstNight(round)
       THEN /\ log' = Append(log, FirstNightEntry)
            /\ killed' = None
            /\ alive' = alive
       ELSE LET mafia_name == get_current_mafia(alive, role)
                candidates == KillCandidates(alive, mafia_name)
            IN  IF mafia_name = None \/ candidates = {}
                THEN /\ killed' = None
                     /\ UNCHANGED <<alive, log>>
                ELSE \E pick \in KillPool(candidates, dialogue_history) :
                        IF pick \notin Names \/ ~alive[pick]
                        THEN /\ killed' = None
                             /\ UNCHANGED <<alive, log>>
                        ELSE /\ alive' = [alive EXCEPT ![pick] = FALSE]
                             /\ log' = Append(log, NightDeathEntry(pick))
                             /\ killed' = pick
    /\ UNCHANGED <<round, phase, role, dialogue_history, last_line_by_name,
                   dialogue_round_start_idx, win, v_dict, allow_no_lynch,
                   executed, counter, mention_counts, top_two, sessionVars>>
    /\ UNCHANGED storeVars

(***************************************************************************)
(* tally_votes_plurality.                                                  *)
(***************************************************************************)
\* Python's order of strings (by code point) on the names and the label.
SortOrder ==
    <<"You", "NoLynch", "Minsu", "Sua", "Jiyeon", "Taehoon", "Harin", "Hyunwoo", "Stranger">>

\* sorted(S) for a set S of names.
SortedNames(S) == Filter(SortOrder, S)

\* The keys of dictionary d, in the order of the roster (insertion order of
\* the drivers, which add the human's vote first and then the living AIs').
Keys(d) == Filter(Roster, DOMAIN d)

\* dict.get(key, default)
Get(d, key, default) == IF key \in DOMAIN d THEN d[key] ELSE default

\* d[key] = value
Put(d, key, value) == [k \in (DOMAIN d) \cup {key} |-> IF k = key THEN value ELSE d[k]]

\* A loop that counts every target, valid or not.
RECURSIVE CountVotesUnfiltered(_, _, _, _)
CountVotesUnfiltered(voters, v, valid_targets, acc) ==
    IF voters = <<>> THEN acc
    ELSE LET target == v[Head(voters)]
         IN  CountVotesUnfiltered(Tail(voters), v, valid_targets,
                                  Put(acc, target, Get(acc, target, 0) + 1))

\* A loop that turns an invalid target into a vote for the no-lynch label.
RECURSIVE CountVotesCoerced(_, _, _, _)
CountVotesCoerced(voters, v, valid_targets, acc) ==
    IF voters = <<>> THEN acc
    ELSE LET target == IF v[Head(voters)] \in valid_targets
                         THEN v[Head(voters)] ELSE NoLynchLabel
         IN  CountVotesCoerced(Tail(voters), v, valid_targets,
                               Put(acc, target, Get(acc, target, 0) + 1))

\* The loop over v_dict.items(): one vote at a time into the counter.
RECURSIVE CountVotes(_, _, _, _)
CountVotes(voters, v, valid_targets, acc) ==
    IF voters = <<>> THEN acc
    ELSE LET target == v[Head(voters)]
             next == IF target = NoLynchLabel
                       THEN Put(acc, NoLynchLabel, Get(acc, NoLynchLabel, 0) + 1)
                     ELSE IF target \in valid_targets
                       THEN Put(acc, target, Get(acc, target, 0) + 1)
                     ELSE acc
         IN  CountVotes(Tail(voters), v, valid_targets, next)

Max(S) == CHOOSE x \in S : \A y \in S : y <= x

\* The least count taken for the top count.
TopCountMin(cnt) == CHOOSE x \in {cnt[n] : n \in DOMAIN cnt} :
                        \A n \in DOMAIN cnt : x <= cnt[n]

\* top_cnt = max(counter.values())
TopCount(cnt) == Max({cnt[n] : n \in DOMAIN cnt})

\* A tie settled in favour of the first name in sorted order.
TieTakesFirst(top_names) == Len(top_names) = 0

\* if len(top_names) != 1
IsTie(top_names) == Len(top_names) # 1

\* The top name returned without the membership test.
ExecutedUnchecked(top_name, valid_targets) == top_name

\* executed = top_name if top_name in valid_targets else None
ExecutedOf(top_name, valid_targets) ==
    IF top_name \in valid_targets THEN top_name ELSE None

\* tally_votes_plurality(v_dict, alive_people, allow_no_lynch, "NoLynch"):
\* the pair (executed, counter).
tally_votes_plurality(v, alive_people, allow) ==
    LET valid_targets == Range(alive_people)
        cnt == CountVotes(Keys(v), v, valid_targets, EmptyDict)
    IN  IF DOMAIN cnt = {} THEN <<None, EmptyDict>>
        ELSE LET top_cnt == TopCount(cnt)
                 top_names == SortedNames({n \in DOMAIN cnt : cnt[n] = top_cnt})
             IN  IF IsTie(top_names) THEN <<None, cnt>>
                 ELSE IF allow /\ top_names[1] = NoLynchLabel THEN <<None, cnt>>
                 ELSE <<ExecutedOf(top_names[1], valid_targets), cnt>>

ExecutedEntry(n) == <<"vote_executed", n>>

NoLynchEntry == <<"vote_no_lynch">>

\* A name that is no player's: a vote for it is never valid.
Stranger == "Stranger"

Voters == {Roster[i] : i \in 1..MaxVoters}

\* The targets a vote can name: three players (living or dead), the
\* no-lynch label and a name that is no player's.
Targets == {Roster[1], Roster[2], Roster[3], NoLynchLabel, Stranger}

VoteMaps == UNION {[S -> Targets] : S \in SUBSET Voters}

\* The tally of a vote map and the caller's use of the result.
CastVotes ==
    /\ pc = "ready"
    /\ pc' = "vote"
    /\ \E v \in VoteMaps, allow \in BOOLEAN :
          LET res == tally_votes_plurality(v, alive_players(alive), allow)
          IN  /\ v_dict' = v
              /\ allow_no_lynch' = allow
              /\ executed' = res[1]
              /\ counter' = res[2]
              /\ IF res[1] # None
                 THEN /\ alive' = [alive EXCEPT ![res[1]] = FALSE]
                      /\ log' = Append(log, ExecutedEntry(res[1]))
                 ELSE /\ alive' = alive
                      /\ log' = Append(log, NoLynchEntry)
    /\ UNCHANGED <<round, phase, role, dialogue_history, last_line_by_name,
                   dialogue_round_start_idx, killed, win, mention_counts, top_two, sessionVars>>
    /\ UNCHANGED storeVars

\* check_win(gs), called on the current state.
CheckWin ==
    /\ pc = "ready"
    /\ pc' = "check_win"
    /\ win' = check_win(alive, role)
    /\ UNCHANGED <<gsVars, killed, v_dict, allow_no_lynch, executed, counter,
                   mention_counts, top_two, sessionVars>>
    /\ UNCHANGED storeVars

(***************************************************************************)
(* Game states handed to the engine.                                       *)
(***************************************************************************)
AINames == Names \ {Human}

\* The role assignment left without a mafia.
RoleAssignmentsNoMafia == {[n \in Names |-> "CITIZEN"]}

\* The role assignment drawn from the whole roster, the human included.
RoleAssignmentsAnyPlayer ==
    {[n \in Names |-> IF n = m THEN "MAFIA" ELSE "CITIZEN"] : m \in Names}

\* The role assignment of create_default_game: one AI player is MAFIA.
RoleAssignments ==
    {[n \in Names |-> IF n = m THEN "MAFIA" ELSE "CITIZEN"] : m \in AINames}

Rep(line, k) == [i \in 1..k |-> line]

Colon == <<":", " ">>

Narrator == <<"sa", "hoe", "ja">>

\* Lines the drivers write: "speaker: text".
SampleLines ==
    { Spell("Harin") \o Colon \o <<"(", "...", ")">>,
      Spell("Minsu") \o Colon \o Spell("Jiyeon") \o <<" ">> \o <<"su", "sang">>,
      Spell("You") \o Colon \o <<"min", "su", "a">> }

NarratorLine == Narrator \o Colon \o <<"...">>

\* Lengths of the closing run of narrator lines.
PadLens == {0, KillWindow - 1}

\* old lines, then at most one other line, then a run of narrator lines.
Transcripts ==
    { Rep(old, i) \o Rep(mid, k) \o Rep(NarratorLine, j) :
        old \in SampleLines, mid \in SampleLines,
        i \in 0..MaxOld, k \in 0..1, j \in PadLens }

NoCall ==
    /\ pc = "ready"
    /\ killed = None
    /\ win = None
    /\ v_dict = EmptyDict
    /\ allow_no_lynch = TRUE
    /\ executed = None
    /\ counter = EmptyDict
    /\ mention_counts = EmptyDict
    /\ top_two = <<>>

\* No driver: the engine is called directly.
NoSession ==
    /\ driver = None
    /\ ui_phase = "NIGHT"
    /\ first_night_done = FALSE
    /\ day_start_idx = 0
    /\ discuss_turns = 0
    /\ response = <<>>
    /\ lines_written = 0

NoStore ==
    /\ llm_reply = None
    /\ mem_file = None
    /\ mem_data = None
    /\ snapshot = None
    /\ raised = None
    /\ vote_input = None

InitEngine ==
    /\ round \in 1..MaxRound
    /\ phase = "NIGHT"
    /\ role \in RoleAssignments
    /\ alive \in [Names -> BOOLEAN]
    /\ log = <<>>
    /\ dialogue_history \in Transcripts
    /\ last_line_by_name = EmptyDict
    /\ dialogue_round_start_idx = 0
    /\ NoCall
    /\ NoSession
    /\ NoStore

NextEngine == MafiaKill \/ CheckWin

SpecEngine == InitEngine /\ [][NextEngine]_vars

InitTally ==
    /\ round = 1
    /\ phase = "DAY_VOTE"
    /\ role \in {r \in RoleAssignments : r[Roster[2]] = "MAFIA"}
    /\ alive \in [Names -> BOOLEAN]
    /\ log = <<>>
    /\ dialogue_history = <<>>
    /\ last_line_by_name = EmptyDict
    /\ dialogue_round_start_idx = 0
    /\ NoCall
    /\ NoSession
    /\ NoStore

NextTally == CastVotes

SpecTally == InitTally /\ [][NextTally]_vars

(***************************************************************************)
(* Mention aggregation: mention_counts_for_today and top_two_mentions.     *)
(***************************************************************************)
\* str.count: the occurrences of name in line that do not overlap, found
\* from the left.
RECURSIVE StrCount(_, _)
StrCount(name, line) ==
    IF Len(line) < Len(name) THEN 0
    ELSE IF SubSeq(line, 1, Len(name)) = name
         THEN 1 + StrCount(name, SubSeq(line, Len(name) + 1, Len(line)))
         ELSE StrCount(name, Tail(line))

\* A count that says only whether the line holds the name.
count_name_once(name, line) ==
    IF Len(name) = 0 \/ Len(line) = 0 THEN 0
    ELSE IF Contains(name, line) THEN 1 ELSE 0

\* _count_name_in_line
count_name_in_line(name, line) ==
    IF Len(name) = 0 \/ Len(line) = 0 THEN 0 ELSE StrCount(name, line)

\* A window that takes the whole transcript.
DayWindowWhole(hist, idx) == hist

\* gs.dialogue_history[gs.dialogue_round_start_idx:]
DayWindow(hist, idx) == SubSeq(hist, idx + 1, Len(hist))

\* GameState.alive_ai: the living players other than the human, in roster order.
alive_ai(al) == Filter(Roster, {n \in Names : al[n] /\ n # Human})

\* The count of one name summed over the lines of a window.
RECURSIVE CountInWindow(_, _)
CountInWindow(name, window) ==
    IF window = <<>> THEN 0
    ELSE count_name_in_line(name, Head(window)) + CountInWindow(name, Tail(window))

mention_counts_for_today(al, hist, idx) ==
    [n \in Range(alive_ai(al)) |-> CountInWindow(Spell(n), DayWindow(hist, idx))]

\* The place of a name in Python's order of strings.
SortIndex(n) == CHOOSE i \in 1..Len(SortOrder) : SortOrder[i] = n

\* A ranking by ascending count.
RankedAscending(S, cnt) ==
    [i \in 1..Cardinality(S) |->
        CHOOSE x \in S :
            Cardinality({y \in S : \/ cnt[y] < cnt[x]
                                   \/ cnt[y] = cnt[x] /\ SortIndex(y) < SortIndex(x)})
                = i - 1]

\* sorted(alive, key=lambda x: (-counts.get(x, 0), x)): the element at place
\* i has i - 1 elements before it in the order (descending count, ascending
\* name).
Ranked(S, cnt) ==
    [i \in 1..Cardinality(S) |->
        CHOOSE x \in S :
            Cardinality({y \in S : \/ cnt[y] > cnt[x]
                                   \/ cnt[y] = cnt[x] /\ SortIndex(y) < SortIndex(x)})
                = i - 1]

\* pool = [n for n in alive if n not in top2]
FillPool(living, chosen) == Range(living) \ Range(chosen)

\* The lists pool[:k] can be once random.shuffle has arranged the pool.
ShuffledPrefixes(pool, k) ==
    IF k <= 0 THEN {<<>>}
    ELSE IF k = 1 THEN {<<a>> : a \in pool}
    ELSE {<<a, b>> : a \in pool, b \in pool} \ {<<a, a>> : a \in pool}

\* The lists top_two_mentions can return.
top_two_mentions(al, hist, idx) ==
    LET living == alive_ai(al)
    IN  IF Len(living) <= 2 THEN {living}
        ELSE UNION {
               LET ranked == Ranked(Range(living), cnt)
                   positive == Filter(ranked, {n \in Range(living) : cnt[n] > 0})
                   first2 == SubSeq(positive, 1,
                                    IF Len(positive) < 2 THEN Len(positive) ELSE 2)
               IN  IF Len(first2) < 2
                   THEN {first2 \o rest :
                           rest \in ShuffledPrefixes(FillPool(living, first2),
                                                     2 - Len(first2))}
                   ELSE {first2} :
               cnt \in {mention_counts_for_today(al, hist, idx)}}

MentionCounts ==
    /\ pc = "ready"
    /\ pc' = "mention_counts_for_today"
    /\ mention_counts' = mention_counts_for_today(alive, dialogue_history,
                                                  dialogue_round_start_idx)
    /\ UNCHANGED <<gsVars, killed, win, v_dict, allow_no_lynch, executed, counter,
                   top_two, sessionVars>>
    /\ UNCHANGED storeVars

TopTwoMentions ==
    /\ pc = "ready"
    /\ pc' = "top_two_mentions"
    /\ top_two' \in top_two_mentions(alive, dialogue_history, dialogue_round_start_idx)
    /\ UNCHANGED <<gsVars, killed, win, v_dict, allow_no_lynch, executed, counter,
                   mention_counts, sessionVars>>
    /\ UNCHANGED storeVars

\* Lines of a day: a name twice in one line, a speaker naming another
\* player, two names that share a syllable, a line that names nobody.
MentionLines ==
    { Spell("Sua") \o Colon \o Spell("Minsu") \o <<" ">> \o Spell("Minsu"),
      Spell("Jiyeon") \o Colon \o Spell("Hyunwoo") \o <<" ">> \o <<"su", "sang">>,
      Spell("You") \o Colon \o <<"min", "su", "a">>,
      Narrator \o Colon \o <<"...">> }

RECURSIVE SeqsUpTo(_, _)
SeqsUpTo(S, k) ==
    IF k = 0 THEN {<<>>}
    ELSE LET shorter == SeqsUpTo(S, k - 1)
         IN  shorter \cup {Append(q, x) : q \in {r \in shorter : Len(r) = k - 1}, x \in S}

MentionTranscripts == SeqsUpTo(MentionLines, MaxHist)

InitMention ==
    /\ round = 1
    /\ phase = "DAY_DISCUSS"
    /\ role \in {r \in RoleAssignments : r[Roster[2]] = "MAFIA"}
    /\ alive \in [Names -> BOOLEAN]
    /\ log = <<>>
    /\ dialogue_history \in MentionTranscripts
    /\ last_line_by_name = EmptyDict
    /\ dialogue_round_start_idx \in 0..Len(dialogue_history)
    /\ NoCall
    /\ NoSession
    /\ NoStore

NextMention == MentionCounts \/ TopTwoMentions

SpecMention == InitMention /\ [][NextMention]_vars

(***************************************************************************)
(* Discussion turns: the anti-repetition filter and the backfill of the    *)
(* players the text service left out (main.py, app_streamlit.py,           *)
(* llm_engine.py).                                                         *)
(***************************************************************************)
FALLBACKS ==
    << <<"(", "ju", "wi", ")">>,
       <<"(", "nun", ")">>,
       <<"(", "han", "sum", ")">>,
       <<"(", "ip", "sul", ")">>,
       <<"(", "bun", "wi", "gi", ")">>,
       <<"(", "chim", "muk", "...", ")">>,
       <<"(", "pyo", "jeong", ")">> >>

GENERIC_PHRASES ==
    { <<"jeo", "do", " ", "ma", "chan", "ga", "ji", ".">>,
      <<"dong", "ui", ".">>,
      <<"dan", "gyeol", ".">>,
      <<"gyeong", "gye", "sim", ".">>,
      <<"jo", "sim", ".">>,
      <<"dan", "hap", ".">> }

Whitespace == {" "}

\* str.strip(): the text without its leading and trailing whitespace.
RECURSIVE StripLeft(_)
StripLeft(t) ==
    IF t # <<>> /\ Head(t) \in Whitespace THEN StripLeft(Tail(t)) ELSE t

RECURSIVE StripRight(_)
StripRight(t) ==
    IF t # <<>> /\ t[Len(t)] \in Whitespace
    THEN StripRight(SubSeq(t, 1, Len(t) - 1)) ELSE t

Strip(t) == StripRight(StripLeft(t))

\* f"{name}: {text}"
FormatLine(name, text) == Spell(name) \o Colon \o text

\* _anti_repeat_line / anti_repeat; fallback is what random.choice(FALLBACKS)
\* gives when the line is rejected.
anti_repeat(last, name, line, fallback) ==
    LET norm == Strip(line)
    IN  IF norm = <<>> \/ norm \in GENERIC_PHRASES \/ norm = Get(last, name, <<>>)
        THEN fallback
        ELSE norm

\* The items of the reply the drivers keep: a living non-human name and a
\* line that is not empty.
RECURSIVE KeptPairs(_, _)
KeptPairs(items, al) ==
    IF items = <<>> THEN <<>>
    ELSE (IF Head(items)[1] \in Range(alive_ai(al)) /\ Head(items)[2] # <<>>
          THEN <<Head(items)>> ELSE <<>>) \o KeptPairs(Tail(items), al)

\* The living non-human players no kept item names, in roster order.
Omitted(pairs, al) ==
    Filter(alive_ai(al), Range(alive_ai(al)) \ {pairs[i][1] : i \in 1..Len(pairs)})

\* _ensure_all_speak: every kept pair filtered against the last lines the
\* game state holds, then one fallback for each player left out.
\* picks[i] is the index random.choice draws for entry i.
ensure_all_speak(last, al, pairs, picks) ==
    LET omitted == Omitted(pairs, al)
    IN  [i \in 1..Len(pairs) |->
            <<pairs[i][1],
              anti_repeat(last, pairs[i][1], pairs[i][2], FALLBACKS[picks[i]])>>]
        \o
        [j \in 1..Len(omitted) |-> <<omitted[j], FALLBACKS[picks[Len(pairs) + j]]>>]

\* do_discuss: the kept pairs filtered one after the other against the
\* lines of this turn only (last_by_name starts empty), then one fallback
\* for each player left out.
RECURSIVE ui_fixed_pairs(_, _, _, _)
ui_fixed_pairs(pairs, last_by_name, picks, i) ==
    IF i > Len(pairs) THEN <<>>
    ELSE LET fixed == anti_repeat(last_by_name, pairs[i][1], pairs[i][2],
                                  FALLBACKS[picks[i]])
         IN  <<(<<pairs[i][1], fixed>>)>>
             \o ui_fixed_pairs(pairs, Put(last_by_name, pairs[i][1], fixed), picks, i + 1)

ui_discuss_lines(al, pairs, picks) ==
    LET omitted == Omitted(pairs, al)
    IN  ui_fixed_pairs(pairs, EmptyDict, picks, 1)
        \o
        [j \in 1..Len(omitted) |-> <<omitted[j], FALLBACKS[picks[Len(pairs) + j]]>>]

\* The transcript lines of a list of (name, line) pairs.
FormatPairs(out) == [i \in 1..Len(out) |-> FormatLine(out[i][1], out[i][2])]

\* gs.last_line_by_name[name] = line, for each pair in turn.
RECURSIVE PutAll(_, _)
PutAll(d, out) ==
    IF out = <<>> THEN d
    ELSE PutAll(Put(d, Head(out)[1], Head(out)[2]), Tail(out))

(***************************************************************************)
(* The engine calls as the drivers make them.                              *)
(***************************************************************************)
\* The game states create_default_game can return.
create_default_game ==
    {[round |-> 1, phase |-> "NIGHT", role |-> r, alive |-> [n \in Names |-> TRUE],
      log |-> <<>>, dialogue_history |-> <<>>, last_line_by_name |-> EmptyDict,
      dialogue_round_start_idx |-> 0] : r \in RoleAssignments}

\* An elimination that leaves the alive flag as it was.
MarkDeadSkipped(al, n) == al

\* gs.players[n].alive = False
MarkDead(al, n) == [al EXCEPT ![n] = FALSE]

\* The outcomes of mafia_kill(gs): the victim returned, the alive flags and
\* the log it leaves.
mafia_kill(r, al, ro, lg, hist) ==
    IF FirstNight(r)
    THEN {[killed |-> None, alive |-> al, log |-> Append(lg, FirstNightEntry)]}
    ELSE LET mafia_name == get_current_mafia(al, ro)
             candidates == KillCandidates(al, mafia_name)
         IN  IF mafia_name = None \/ candidates = {}
             THEN {[killed |-> None, alive |-> al, log |-> lg]}
             ELSE {IF pick \notin Names \/ ~al[pick]
                   THEN [killed |-> None, alive |-> al, log |-> lg]
                   ELSE [killed |-> pick, alive |-> MarkDead(al, pick),
                         log |-> Append(lg, NightDeathEntry(pick))] :
                       pick \in KillPool(candidates, hist)}

\* The number of lines of hist that contain name n.
LinesWith(n, hist) == Cardinality({i \in 1..Len(hist) : Contains(Spell(n), hist[i])})

\* ai_votes_by_rule: every living non-human player votes for the candidate
\* most lines of the transcript name.
\* A rule under which no AI player votes.
ai_votes_abstain(al, hist, allowed_choices) == EmptyDict

ai_votes_by_rule(al, hist, allowed_choices) ==
    LET voters == alive_ai(al)
        candidates == Filter(allowed_choices, Range(allowed_choices) \ {NoLynchLabel})
    IN  IF voters = <<>> THEN EmptyDict
        ELSE CHOOSE votes \in
               { LET ranked == Ranked(Range(candidates), cnt)
                     first == IF ranked # <<>> /\ cnt[ranked[1]] > 0 THEN ranked[1]
                              ELSE IF candidates # <<>> THEN candidates[1]
                              ELSE NoLynchLabel
                     top1 == IF first \in Range(allowed_choices) THEN first
                             ELSE NoLynchLabel
                 IN  [v \in Range(voters) |-> top1] :
                 cnt \in {[c \in Range(candidates) |-> LinesWith(c, hist)]} } : TRUE

\* line.startswith("You: ")
SaidByHuman(line) ==
    /\ Len(line) >= Len(Spell(Human) \o Colon)
    /\ SubSeq(line, 1, Len(Spell(Human) \o Colon)) = Spell(Human) \o Colon

\* mention_counts_today of llm_engine.py: per candidate, the lines the human
\* wrote since the day start index whose text holds the candidate's name.
mention_counts_today(candidates, hist, start) ==
    [c \in Range(candidates) |->
        Cardinality({i \in (start + 1)..Len(hist) :
            /\ SaidByHuman(hist[i])
            /\ Contains(Spell(c),
                        SubSeq(hist[i], Len(Spell(Human) \o Colon) + 1, Len(hist[i])))})]

\* The target every AI votes for in do_vote.
ui_ai_pick(drv, targets, hist, start) ==
    IF drv = "app_streamlit"
    THEN IF targets # <<>> THEN targets[1] ELSE NoLynchLabel
    ELSE CHOOSE ai_pick \in
           { LET ranked == Ranked(Range(targets), cnt)
             IN  IF ranked # <<>> THEN ranked[1]
                 ELSE IF targets # <<>> THEN targets[1] ELSE NoLynchLabel :
             cnt \in {mention_counts_today(targets, hist, start)} } : TRUE

\* A choice taken as entered.
CoerceChoiceKept(choice, allowed) == choice

\* A choice outside the allowed ones counts as a vote for no lynch.
CoerceChoice(choice, allowed) ==
    IF choice \in Range(allowed) THEN choice ELSE NoLynchLabel

(***************************************************************************)
(* Lines the UI drivers write in the narrator's name.                      *)
(***************************************************************************)
NarratorSays(text) == Narrator \o Colon \o text

FirstNightLine == NarratorSays(<<"cheot", " ", "bam">>)

NothingHappenedLine == NarratorSays(<<"a", "mu", " ", "il">>)

NightDeathLine(n) ==
    NarratorSays(<<"bam", "e", " ">> \o Spell(n) \o <<"i", "(", "ga", ")", " ", "sa", "mang">>
                 \o (IF n = Human THEN <<" ", "ma", "pi", "a", " ", "seung", "ri">> ELSE <<>>))

WinLine(w) ==
    NarratorSays(IF w = "CITIZEN_WIN" THEN <<"si", "min", " ", "seung", "ri">>
                 ELSE <<"ma", "pi", "a", " ", "seung", "ri">>)

Digits == <<"1", "2", "3", "4", "5", "6", "7", "8">>

\* "k: v" for each counted target, in the order (descending count,
\* ascending name), each on a line of its own.
RECURSIVE TallyItems(_, _)
TallyItems(ranked, cnt) ==
    IF ranked = <<>> THEN <<>>
    ELSE Spell(Head(ranked)) \o Colon \o <<Digits[cnt[Head(ranked)]], "pyo">>
         \o (IF Len(ranked) > 1 THEN <<"\n", "-", " ">> ELSE <<>>)
         \o TallyItems(Tail(ranked), cnt)

TallyLine(cnt) ==
    NarratorSays(<<"deuk", "pyo", "\n", "-", " ">> \o TallyItems(Ranked(DOMAIN cnt, cnt), cnt))

ExecutedLine(n) == NarratorSays(<<"cheo", "hyeong", ":", " ">> \o Spell(n))

NoLynchLine == NarratorSays(Spell(NoLynchLabel))

(***************************************************************************)
(* The drivers: the command-line loop of main.py and the two Streamlit     *)
(* programs app_streamlit.py and llm_engine.py.  pc is the step of the     *)
(* driver that ended last; "exit" is the end of the command-line process.  *)
(***************************************************************************)
Drivers == {"main", "app_streamlit", "llm_engine"}

UIDrivers == {"app_streamlit", "llm_engine"}

\* What the human types in a discussion turn.
UserTexts == { <<" ">>, Spell("Taehoon") \o <<" ">> \o <<"su", "sang">> }

\* The text of an empty input line.
EmptyInputText == <<"(", "...", ")">>

SuspectsJiyeon == Spell("Jiyeon") \o <<" ">> \o <<"su", "sang">>

\* The replies of the text service (character_lines): no item, which is
\* also what a failed or unreadable reply gives; one line for one player;
\* two items for the same player, the second with blanks around the same
\* text; a line of the generic phrases.
Responses ==
    { <<>>,
      << <<"Minsu", SuspectsJiyeon>> >>,
      << <<"Minsu", SuspectsJiyeon>>, <<"Minsu", <<" ">> \o SuspectsJiyeon \o <<" ">>>> >>,
      << <<"Jiyeon", <<"dong", "ui", ".">>>> >> }

\* What the human enters as a vote.
VoteInputs == {Roster[3], NoLynchLabel, Stranger}

\* The indices random.choice(FALLBACKS) draws in the model.
FallbackDraws == {1}

\* The draws of random.choice(FALLBACKS) for n entries.
FallbackPicks(n) == [1..n -> FallbackDraws]

(***************************************************************************)
(* JSON values, as json.loads builds them: t is the Python type, s the     *)
(* text of a string, n the value of a number, k and v the keys and the     *)
(* values of a mapping in insertion order, v alone the items of a list.    *)
(***************************************************************************)
JNull == [t |-> "null", s |-> <<>>, n |-> 0, k |-> <<>>, v |-> <<>>]

JNum(x) == [t |-> "num", s |-> <<>>, n |-> x, k |-> <<>>, v |-> <<>>]

JStr(x) == [t |-> "str", s |-> x, n |-> 0, k |-> <<>>, v |-> <<>>]

JList(items) == [t |-> "list", s |-> <<>>, n |-> 0, k |-> <<>>, v |-> items]

JObj(keys, vals) == [t |-> "obj", s |-> <<>>, n |-> 0, k |-> keys, v |-> vals]

\* A key written as one word.
Key(word) == <<word>>

\* key in d, for a mapping d.
JHas(d, key) == \E i \in 1..Len(d.k) : d.k[i] = key

\* d.get(key, default), for a mapping d.
JGet(d, key, default) ==
    IF JHas(d, key) THEN d.v[CHOOSE i \in 1..Len(d.k) : d.k[i] = key] ELSE default

\* bool(j)
Truthy(j) ==
    CASE j.t = "null" -> FALSE
      [] j.t = "num"  -> j.n # 0
      [] j.t = "str"  -> j.s # <<>>
      [] j.t = "list" -> j.v # <<>>
      [] OTHER        -> j.k # <<>>

(***************************************************************************)
(* llm_call_json and day_discuss of main.py, for every shape of reply.     *)
(***************************************************************************)
\* A piece of the content text: prose without braces, text with braces that
\* is no JSON, or the text of one JSON object.
Prose == [c |-> "prose", j |-> JNull]

Broken == [c |-> "broken", j |-> JNull]

ObjectText(obj) == [c |-> "object", j |-> obj]

\* The reply of the service: no answer at all, a body that is no JSON, an
\* envelope without a readable message, a message whose content is null,
\* or a message with a content text.
NoAnswer == [kind |-> "no_reply", chunks |-> <<>>]

BodyNotJson == [kind |-> "not_json", chunks |-> <<>>]

BadEnvelope == [kind |-> "bad_envelope", chunks |-> <<>>]

ContentNull == [kind |-> "content_null", chunks |-> <<>>]

Content(chunks) == [kind |-> "content", chunks |-> chunks]

\* The outcome of a call: the exception that escapes, or the value returned.
Raises(exc) == [raised |-> exc, data |-> JNull]

Returns(value) == [raised |-> None, data |-> value]

\* re.search(r"\{.*\}", text, re.DOTALL) and json.loads of the match: the
\* match runs from the first brace of the text to the last one.
ParseContent(chunks) ==
    LET braces == {i \in 1..Len(chunks) : chunks[i].c # "prose"}
    IN  IF braces = {} THEN JObj(<<>>, <<>>)
        ELSE LET first == CHOOSE i \in braces : \A j \in braces : i <= j
                 last == CHOOSE i \in braces : \A j \in braces : j <= i
             IN  IF first = last /\ chunks[first].c = "object"
                 THEN chunks[first].j
                 ELSE JObj(<<>>, <<>>)

\* llm_call_json
llm_call_json(rep) ==
    CASE rep.kind \in {"no_reply", "not_json", "bad_envelope"} -> Returns(JObj(<<>>, <<>>))
      [] rep.kind = "content_null" -> Raises("TypeError")
      [] OTHER -> Returns(ParseContent(rep.chunks))

\* The player a JSON value names, None when it is no player's name.
PlayerNamed(j) ==
    IF j.t = "str" /\ \E n \in Names : Spell(n) = j.s
    THEN CHOOSE n \in Names : Spell(n) = j.s
    ELSE None

\* The loop of day_discuss over the items of a list: the pairs it keeps, or
\* the exception item.get raises on an item that is no mapping.
RECURSIVE CollectItems(_, _, _)
CollectItems(items, al, acc) ==
    IF items = <<>> THEN Returns(acc)
    ELSE IF Head(items).t # "obj" THEN Raises("AttributeError")
    ELSE LET name == PlayerNamed(JGet(Head(items), Key("name"), JNull))
             line == JGet(Head(items), Key("line"), JNull)
         IN  CollectItems(Tail(items), al,
                          IF name \in Range(alive_ai(al)) /\ Truthy(line)
                          THEN Append(acc, <<name, line>>) ELSE acc)

\* for item in data.get("character_lines", []): ...
CollectLines(data, al) ==
    LET lines == JGet(data, Key("character_lines"), JList(<<>>))
    IN  CASE lines.t \in {"null", "num"} -> Raises("TypeError")
          [] lines.t = "str" ->
                IF lines.s = <<>> THEN Returns(<<>>) ELSE Raises("AttributeError")
          [] lines.t = "obj" ->
                IF lines.k = <<>> THEN Returns(<<>>) ELSE Raises("AttributeError")
          [] OTHER -> CollectItems(lines.v, al, <<>>)

\* day_discuss from the reply on: what escapes, and the pairs it writes.
\* (line or "").strip() raises on a line that is no string.
day_discuss(rep, last, al, picks) ==
    LET got == llm_call_json(rep)
    IN  IF got.raised # None THEN Raises(got.raised)
        ELSE LET kept == CollectLines(got.data, al)
             IN  IF kept.raised # None THEN Raises(kept.raised)
                 ELSE IF \E i \in 1..Len(kept.data) : kept.data[i][2].t # "str"
                 THEN Raises("AttributeError")
                 ELSE Returns(ensure_all_speak(
                          last, al,
                          [i \in 1..Len(kept.data) |->
                              <<kept.data[i][1], kept.data[i][2].s>>],
                          picks))

\* One item of character_lines.
Item(name, line) == JObj(<<Key("name"), Key("line")>>, <<name, line>>)

CharacterLines(value) == JObj(<<Key("character_lines")>>, <<value>>)

MinsuSays == Item(JStr(Spell("Minsu")), JStr(SuspectsJiyeon))

\* The JSON objects the content can hold.
ReplyObjects ==
    { JObj(<<>>, <<>>),
      JObj(<<Key("votes")>>, <<JList(<<>>)>>),
      CharacterLines(JNull),
      CharacterLines(JNum(3)),
      CharacterLines(JStr(<<>>)),
      CharacterLines(JStr(SuspectsJiyeon)),
      CharacterLines(JObj(<<>>, <<>>)),
      CharacterLines(MinsuSays),
      CharacterLines(JList(<<>>)),
      CharacterLines(JList(<<MinsuSays>>)),
      CharacterLines(JList(<<MinsuSays, JStr(SuspectsJiyeon)>>)),
      CharacterLines(JList(<<JNull>>)),
      CharacterLines(JList(<<JObj(<<Key("line")>>, <<JStr(SuspectsJiyeon)>>)>>)),
      CharacterLines(JList(<<JObj(<<Key("name")>>, <<JStr(Spell("Minsu"))>>)>>)),
      CharacterLines(JList(<<Item(JStr(Spell("Minsu")), JNull)>>)),
      CharacterLines(JList(<<Item(JStr(Spell("Minsu")), JNum(5))>>)),
      CharacterLines(JList(<<Item(JNum(5), JStr(SuspectsJiyeon))>>)),
      CharacterLines(JList(<<Item(JStr(Spell("Jiyeon")), JStr(<<" ">>))>>)) }

\* The replies of the text service.
Replies ==
    {NoAnswer, BodyNotJson, BadEnvelope, ContentNull,
     Content(<<>>), Content(<<Prose>>), Content(<<Broken>>),
     Content(<<ObjectText(CharacterLines(JList(<<MinsuSays>>))),
               ObjectText(CharacterLines(JList(<<MinsuSays>>)))>>),
     Content(<<Prose, ObjectText(CharacterLines(JList(<<MinsuSays>>))), Prose>>)}
    \cup {Content(<<ObjectText(obj)>>) : obj \in ReplyObjects}

\* The state a driver starts a game in.
NewGame(drv) ==
    /\ \E gs \in create_default_game :
          /\ round' = gs.round
          /\ phase' = gs.phase
          /\ role' = gs.role
          /\ alive' = gs.alive
          /\ log' = gs.log
          /\ dialogue_history' = gs.dialogue_history
          /\ last_line_by_name' = gs.last_line_by_name
          /\ dialogue_round_start_idx' = gs.dialogue_round_start_idx
    /\ pc' = "create_default_game"
    /\ killed' = None
    /\ win' = None
    /\ v_dict' = EmptyDict
    /\ allow_no_lynch' = TRUE
    /\ executed' = None
    /\ counter' = EmptyDict
    /\ mention_counts' = EmptyDict
    /\ top_two' = <<>>
    /\ driver' = drv
    /\ ui_phase' = "NIGHT"
    /\ first_night_done' = FALSE
    /\ day_start_idx' = 0
    /\ discuss_turns' = 0
    /\ response' = <<>>
    /\ lines_written' = 0

\* ---- main.py ----

\* The top of the loop: gs.phase = Phase.NIGHT.
CliRoundStart ==
    /\ driver = "main"
    /\ pc \in {"create_default_game", "vote"}
    /\ round <= MaxCliRound
    /\ phase' = "NIGHT"
    /\ pc' = "round_start"
    /\ UNCHANGED <<round, role, alive, log, dialogue_history, last_line_by_name,
                   dialogue_round_start_idx, callVars, sessionVars>>
    /\ UNCHANGED storeVars

\* The night: mafia_kill, the end of the game when the human died or a team
\* has won, else the start of the day.
CliNight ==
    /\ driver = "main"
    /\ pc = "round_start"
    /\ \E r \in mafia_kill(round, alive, role, log, dialogue_history) :
          /\ killed' = r.killed
          /\ alive' = r.alive
          /\ log' = r.log
          /\ IF r.killed = Human
             THEN /\ pc' = "exit"
                  /\ UNCHANGED <<win, phase, dialogue_round_start_idx>>
             ELSE /\ win' = check_win(r.alive, role)
                  /\ IF win' # None
                     THEN /\ pc' = "exit"
                          /\ UNCHANGED <<phase, dialogue_round_start_idx>>
                     ELSE /\ pc' = "night"
                          /\ phase' = "DAY_DISCUSS"
                          /\ dialogue_round_start_idx' = Len(dialogue_history)
    /\ UNCHANGED <<round, role, dialogue_history, last_line_by_name, v_dict,
                   allow_no_lynch, executed, counter, mention_counts, top_two,
                   sessionVars>>
    /\ UNCHANGED storeVars

\* One discussion turn: the human's line, then day_discuss.  The text service
\* answers with one of Responses, which day_discuss handles, or with one of
\* Replies that makes it raise: nothing in main() catches the exception, so
\* the process ends there with raised holding it.
CliDiscuss ==
    /\ driver = "main"
    /\ pc \in {"night", "discuss"}
    /\ discuss_turns < MaxTurns
    /\ lines_written < MaxTranscript
    /\ \E typed \in UserTexts :
          LET user == IF Strip(typed) = <<>> THEN EmptyInputText ELSE Strip(typed)
          IN  \/ \E reply \in Responses :
                    \E pairs \in {KeptPairs(reply, alive)} :
                       \E picks \in FallbackPicks(Len(pairs) + Len(Omitted(pairs, alive))) :
                          \E out \in {ensure_all_speak(last_line_by_name, alive, pairs, picks)} :
                             /\ dialogue_history' =
                                    Append(dialogue_history, FormatLine(Human, user))
                                    \o FormatPairs(out)
                             /\ last_line_by_name' = PutAll(last_line_by_name, out)
                             /\ response' = reply
                             /\ discuss_turns' = discuss_turns + 1
                             /\ pc' = "discuss"
                             /\ UNCHANGED raised
              \/ \E rep \in Replies :
                    \E picks \in FallbackPicks(Cardinality(Names)) :
                       \E res \in {day_discuss(rep, last_line_by_name, alive, picks)} :
                          /\ res.raised # None
                          /\ dialogue_history' =
                                 Append(dialogue_history, FormatLine(Human, user))
                          /\ raised' = res.raised
                          /\ pc' = "exit"
                          /\ UNCHANGED <<last_line_by_name, response, discuss_turns>>
    /\ lines_written' = lines_written + (Len(dialogue_history') - Len(dialogue_history))
    /\ UNCHANGED <<round, phase, role, alive, log, dialogue_round_start_idx, callVars,
                   driver, ui_phase, first_night_done, day_start_idx>>
    /\ UNCHANGED <<llm_reply, mem_file, mem_data, snapshot, vote_input>>

\* "/vote": the discussion ends.
CliToVote ==
    /\ driver = "main"
    /\ pc \in {"night", "discuss"}
    /\ phase' = "DAY_VOTE"
    /\ pc' = "to_vote"
    /\ UNCHANGED <<round, role, alive, log, dialogue_history, last_line_by_name,
                   dialogue_round_start_idx, callVars, sessionVars>>
    /\ UNCHANGED storeVars

\* The vote: the human's vote, the AIs' votes by rule, the tally, the
\* execution, check_win and the next round.
CliVote ==
    /\ driver = "main"
    /\ pc = "to_vote"
    /\ \E typed \in VoteInputs :
          LET alive_people == alive_players(alive)
              targets == alive_ai(alive)
              allowed_choices == targets \o <<NoLynchLabel>>
              your == CoerceChoice(typed, allowed_choices)
          IN  \E rule_votes \in {ai_votes_by_rule(alive, dialogue_history, allowed_choices)} :
              \E vote_dict \in
                    {[v \in {Human} \cup {x \in DOMAIN rule_votes :
                                             /\ x \in Range(targets)
                                             /\ rule_votes[x] \in Range(allowed_choices)} |->
                         IF v = Human THEN your ELSE rule_votes[v]]} :
              \E res \in {tally_votes_plurality(vote_dict, alive_people, TRUE)} :
                 /\ vote_input' = typed
                 /\ v_dict' = vote_dict
                 /\ allow_no_lynch' = TRUE
                 /\ executed' = res[1]
                 /\ counter' = res[2]
                 /\ IF res[1] # None
                    THEN /\ alive' = MarkDead(alive, res[1])
                         /\ log' = Append(log, ExecutedEntry(res[1]))
                    ELSE /\ alive' = alive
                         /\ log' = Append(log, NoLynchEntry)
    /\ win' = check_win(alive', role)
    /\ IF win' # None
       THEN /\ pc' = "exit"
            /\ round' = round
       ELSE /\ pc' = "vote"
            /\ round' = round + 1
    /\ UNCHANGED <<phase, role, dialogue_history, last_line_by_name,
                   dialogue_round_start_idx, killed, mention_counts, top_two,
                   sessionVars>>
    /\ UNCHANGED <<llm_reply, mem_file, mem_data, snapshot, raised>>

\* ---- app_streamlit.py and llm_engine.py ----

\* S["day_start_idx"] once the day begins: llm_engine.py sets it to the
\* length of the transcript, app_streamlit.py leaves it alone.
DayStartAfterNight(drv, hist, old) == IF drv = "llm_engine" THEN Len(hist) ELSE old

\* do_night
UiNight ==
    /\ driver \in UIDrivers
    /\ ui_phase = "NIGHT"
    /\ round <= MaxRound
    /\ lines_written < MaxTranscript
    /\ pc' = "night"
    /\ IF ~first_night_done
       THEN /\ dialogue_history' = Append(dialogue_history, FirstNightLine)
            /\ first_night_done' = TRUE
            /\ ui_phase' = "DAY_DISCUSS"
            /\ day_start_idx' = DayStartAfterNight(driver, dialogue_history', day_start_idx)
            /\ UNCHANGED <<alive, log, killed, win>>
       ELSE \E r \in mafia_kill(round, alive, role, log, dialogue_history) :
               /\ killed' = r.killed
               /\ alive' = r.alive
               /\ log' = r.log
               /\ first_night_done' = first_night_done
               /\ IF r.killed = Human
                  THEN /\ dialogue_history' =
                             Append(dialogue_history, NightDeathLine(Human))
                       /\ UNCHANGED <<win, ui_phase, day_start_idx>>
                  ELSE LET told == Append(dialogue_history,
                                          IF r.killed # None THEN NightDeathLine(r.killed)
                                          ELSE NothingHappenedLine)
                       IN  /\ win' = check_win(r.alive, role)
                           /\ IF win' # None
                              THEN /\ dialogue_history' = Append(told, WinLine(win'))
                                   /\ UNCHANGED <<ui_phase, day_start_idx>>
                              ELSE /\ dialogue_history' = told
                                   /\ ui_phase' = "DAY_DISCUSS"
                                   /\ day_start_idx' =
                                          DayStartAfterNight(driver, told, day_start_idx)
    /\ lines_written' = lines_written + (Len(dialogue_history') - Len(dialogue_history))
    /\ UNCHANGED <<round, phase, role, last_line_by_name, dialogue_round_start_idx,
                   v_dict, allow_no_lynch, executed, counter, mention_counts, top_two,
                   driver, discuss_turns, response>>
    /\ UNCHANGED storeVars

\* do_discuss
UiDiscuss ==
    /\ driver \in UIDrivers
    /\ ui_phase = "DAY_DISCUSS"
    /\ discuss_turns < MaxTurns
    /\ lines_written < MaxTranscript
    /\ \E typed \in UserTexts, reply \in Responses :
          LET said == IF Strip(typed) # <<>>
                      THEN <<FormatLine(Human, Strip(typed))>> ELSE <<>>
              pairs == KeptPairs(reply, alive)
          IN  \E picks \in FallbackPicks(Len(pairs) + Len(Omitted(pairs, alive))) :
                 /\ dialogue_history' =
                        dialogue_history \o said
                        \o FormatPairs(ui_discuss_lines(alive, pairs, picks))
                 /\ response' = reply
    /\ lines_written' = lines_written + (Len(dialogue_history') - Len(dialogue_history))
    /\ discuss_turns' = discuss_turns + 1
    /\ pc' = "discuss"
    /\ UNCHANGED <<round, phase, role, alive, log, last_line_by_name,
                   dialogue_round_start_idx, callVars, driver, ui_phase,
                   first_night_done, day_start_idx>>
    /\ UNCHANGED storeVars

\* The button that opens the vote.
UiToVote ==
    /\ driver \in UIDrivers
    /\ ui_phase = "DAY_DISCUSS"
    /\ ui_phase' = "DAY_VOTE"
    /\ pc' = "to_vote"
    /\ UNCHANGED <<gsVars, callVars, driver, lines_written, first_night_done, day_start_idx,
                   discuss_turns, response>>
    /\ UNCHANGED storeVars

\* The button that goes back to the discussion.
UiBackToDiscuss ==
    /\ driver \in UIDrivers
    /\ ui_phase = "DAY_VOTE"
    /\ ui_phase' = "DAY_DISCUSS"
    /\ pc' = "back_to_discuss"
    /\ UNCHANGED <<gsVars, callVars, driver, lines_written, first_night_done, day_start_idx,
                   discuss_turns, response>>
    /\ UNCHANGED storeVars

\* do_vote
UiVote ==
    /\ driver \in UIDrivers
    /\ ui_phase = "DAY_VOTE"
    /\ lines_written < MaxTranscript
    /\ pc' = "vote"
    /\ \E chosen \in VoteInputs :
          LET targets == alive_ai(alive)
              allowed == targets \o <<NoLynchLabel>>
              user_choice == CoerceChoice(chosen, allowed)
          IN  \E ai_pick \in {ui_ai_pick(driver, targets, dialogue_history, day_start_idx)} :
              \E votes \in {[v \in {Human} \cup Range(targets) |->
                               IF v = Human THEN user_choice ELSE ai_pick]} :
              \E res \in {tally_votes_plurality(votes, alive_players(alive), TRUE)} :
              \E told \in {Append(Append(dialogue_history, TallyLine(res[2])),
                                  IF res[1] # None THEN ExecutedLine(res[1])
                                  ELSE NoLynchLine)} :
                 /\ vote_input' = chosen
                 /\ v_dict' = votes
                 /\ allow_no_lynch' = TRUE
                 /\ executed' = res[1]
                 /\ counter' = res[2]
                 /\ IF res[1] # None
                    THEN /\ alive' = MarkDead(alive, res[1])
                         /\ log' = Append(log, ExecutedEntry(res[1]))
                    ELSE /\ alive' = alive
                         /\ log' = Append(log, NoLynchEntry)
                 /\ win' = check_win(alive', role)
                 /\ IF win' # None
                    THEN /\ dialogue_history' = Append(told, WinLine(win'))
                         /\ UNCHANGED <<round, ui_phase>>
                    ELSE /\ dialogue_history' = told
                         /\ round' = round + 1
                         /\ ui_phase' = "NIGHT"
    /\ lines_written' = lines_written + (Len(dialogue_history') - Len(dialogue_history))
    /\ UNCHANGED <<phase, role, last_line_by_name, dialogue_round_start_idx, killed,
                   mention_counts, top_two, driver, first_night_done, day_start_idx,
                   discuss_turns, response>>
    /\ UNCHANGED <<llm_reply, mem_file, mem_data, snapshot, raised>>

\* The sidebar button that clears the log.
UiClearLog ==
    /\ driver \in UIDrivers
    /\ dialogue_history' = <<>>
    /\ pc' = "clear_log"
    /\ UNCHANGED <<round, phase, role, alive, log, last_line_by_name,
                   dialogue_round_start_idx, callVars, sessionVars>>
    /\ UNCHANGED storeVars

\* The sidebar button that starts a new game.
UiNewGame ==
    /\ driver \in UIDrivers
    /\ NewGame(driver)
    /\ vote_input' = None
    /\ UNCHANGED <<llm_reply, mem_file, mem_data, snapshot, raised>>

Init ==
    /\ driver \in Drivers
    /\ \E gs \in create_default_game :
          /\ round = gs.round
          /\ phase = gs.phase
          /\ role = gs.role
          /\ alive = gs.alive
          /\ log = gs.log
          /\ dialogue_history = gs.dialogue_history
          /\ last_line_by_name = gs.last_line_by_name
          /\ dialogue_round_start_idx = gs.dialogue_round_start_idx
    /\ pc = "create_default_game"
    /\ killed = None
    /\ win = None
    /\ v_dict = EmptyDict
    /\ allow_no_lynch = TRUE
    /\ executed = None
    /\ counter = EmptyDict
    /\ mention_counts = EmptyDict
    /\ top_two = <<>>
    /\ ui_phase = "NIGHT"
    /\ first_night_done = FALSE
    /\ day_start_idx = 0
    /\ discuss_turns = 0
    /\ response = <<>>
    /\ lines_written = 0
    /\ NoStore

Next ==
    \/ CliRoundStart
    \/ CliNight
    \/ CliDiscuss
    \/ CliToVote
    \/ CliVote
    \/ UiNight
    \/ UiDiscuss
    \/ UiToVote
    \/ UiBackToDiscuss
    \/ UiVote
    \/ UiClearLog
    \/ UiNewGame

Spec == Init /\ [][Next]_vars

(***************************************************************************)
(* main.py alone, for a human who ends every discussion and casts every    *)
(* vote.  The loop goes on to its next round and the discussion is left    *)
(* with "/vote" whenever that is possible.  At the start of a night and at *)
(* the vote prompt the night step and the vote step are the only steps,    *)
(* and mafia_kill and the tally return in every state, so there fairness   *)
(* is that the program does not stay at the position for ever.             *)
(***************************************************************************)
InitCli == Init /\ driver = "main"

NextCli ==
    \/ CliRoundStart
    \/ CliNight
    \/ CliDiscuss
    \/ CliToVote
    \/ CliVote

SpecCli ==
    /\ InitCli
    /\ [][NextCli]_vars
    /\ WF_vars(CliRoundStart)
    /\ WF_vars(CliToVote)
    /\ []<>(pc # "round_start")
    /\ []<>(pc # "to_vote")

\* The call day_discuss(gs, user_msg) of main.py, after the human's line was
\* appended.
DayDiscuss ==
    /\ pc = "ready"
    /\ pc' = "day_discuss"
    /\ \E picks \in FallbackPicks(Cardinality(Names)) :
       \E res \in {day_discuss(llm_reply, last_line_by_name, alive, picks)} :
          /\ raised' = res.raised
          /\ IF res.raised # None
             THEN UNCHANGED <<dialogue_history, last_line_by_name>>
             ELSE /\ dialogue_history' = dialogue_history \o FormatPairs(res.data)
                  /\ last_line_by_name' = PutAll(last_line_by_name, res.data)
    /\ UNCHANGED <<round, phase, role, alive, log, dialogue_round_start_idx, callVars,
                   sessionVars, llm_reply, mem_file, mem_data, snapshot,
                   vote_input>>

InitReply ==
    /\ round = 1
    /\ phase = "DAY_DISCUSS"
    /\ alive \in {al \in [Names -> BOOLEAN] :
                     /\ al[Human]
                     /\ \A n \in {"Sua", "Harin", "Taehoon"} : al[n] = al["Hyunwoo"]}
    /\ role \in {r \in RoleAssignments : check_win(alive, r) = None}
    /\ log = <<>>
    /\ dialogue_history = <<FormatLine(Human, EmptyInputText)>>
    /\ last_line_by_name \in {EmptyDict, Put(EmptyDict, "Minsu", SuspectsJiyeon)}
    /\ dialogue_round_start_idx = 0
    /\ NoCall
    /\ NoSession
    /\ llm_reply \in Replies
    /\ mem_file = None
    /\ mem_data = None
    /\ snapshot = None
    /\ raised = None
    /\ vote_input = None

NextReply == DayDiscuss

SpecReply == InitReply /\ [][NextReply]_vars

(***************************************************************************)
(* memory.py: the persisted MemoryStore.                                   *)
(***************************************************************************)
\* A lone surrogate: a character that UTF-8 cannot encode.
Surrogate == "ud800"

\* A cleaning that drops the first lone surrogate only.
_clean_str_once(s) ==
    IF \E i \in 1..Len(s) : s[i] = Surrogate
    THEN LET at == CHOOSE i \in 1..Len(s) :
                      /\ s[i] = Surrogate
                      /\ \A j \in 1..(i - 1) : s[j] # Surrogate
         IN  SubSeq(s, 1, at - 1) \o SubSeq(s, at + 1, Len(s))
    ELSE s

\* s.encode("utf-8", "ignore").decode("utf-8", "ignore"), for a string s.
_clean_str(s) == SelectSeq(s, LAMBDA c : c # Surrogate)

\* d[key] = value on a mapping d: a new key goes last, a key that is there
\* keeps its place.
JPut(d, key, value) ==
    IF JHas(d, key)
    THEN JObj(d.k, [i \in 1..Len(d.k) |-> IF d.k[i] = key THEN value ELSE d.v[i]])
    ELSE JObj(Append(d.k, key), Append(d.v, value))

RECURSIVE JPutAll(_, _, _)
\* d[keys[i]] = vals[i], one after the other.
JPutAll(d, keys, vals) ==
    IF keys = <<>> THEN d
    ELSE JPutAll(JPut(d, Head(keys), Head(vals)), Tail(keys), Tail(vals))

RECURSIVE _sanitize(_)
_sanitize(obj) ==
    CASE obj.t = "null" -> obj
      [] obj.t = "str"  -> JStr(_clean_str(obj.s))
      [] obj.t = "obj"  ->
            JPutAll(JObj(<<>>, <<>>),
                    [i \in 1..Len(obj.k) |-> _clean_str(obj.k[i])],
                    [i \in 1..Len(obj.v) |-> _sanitize(obj.v[i])])
      [] obj.t = "list" -> JList([i \in 1..Len(obj.v) |-> _sanitize(obj.v[i])])
      [] OTHER          -> obj

\* The record MemoryStore.__init__ starts from.
DefaultData ==
    JObj(<<Key("dialogue_history"), Key("facts"), Key("suspicions"),
           Key("quietness"), Key("votes"), Key("round_summaries")>>,
         <<JList(<<>>),
           JObj(<<Key("dead"), Key("revealed_roles")>>, <<JList(<<>>), JObj(<<>>, <<>>)>>),
           JObj(<<>>, <<>>), JObj(<<>>, <<>>), JObj(<<>>, <<>>), JObj(<<>>, <<>>)>>)

\* Words written as one character of the model that are longer than two
\* characters in the program.
Words ==
    {"dialogue_history", "facts", "suspicions", "quietness", "votes",
     "round_summaries", "dead", "revealed_roles", "Round", "voter", "target"}

\* The call failed with exc and left the record as d.
Failed(exc, d) == [raised |-> exc, data |-> d]

\* The key a hashable JSON value is stored under: a string under its text,
\* a number and null under a key no string is equal to.
HashKey(j) ==
    CASE j.t = "str" -> j.s
      [] j.t = "num" -> <<"number", ToString(j.n)>>
      [] OTHER       -> <<"None">>

\* What dict.update takes from one item of a sequence: the two elements of a
\* list or of a string, the two keys of a mapping.
PairOf(item) ==
    CASE item.t = "list" -> item.v
      [] item.t = "str"  -> [i \in 1..Len(item.s) |-> JStr(<<item.s[i]>>)]
      [] OTHER           -> [i \in 1..Len(item.k) |-> JStr(item.k[i])]

\* len(item), for a list, a string or a mapping.
ItemLen(item) ==
    CASE item.t = "list" -> Len(item.v)
      [] item.t = "str"  -> IF \E i \in 1..Len(item.s) : item.s[i] \in Words
                            THEN 3 ELSE Len(item.s)
      [] OTHER           -> Len(item.k)

RECURSIVE UpdateFromPairs(_, _)
\* dict.update(items) for a sequence: the items before the failing one are
\* stored.
UpdateFromPairs(d, items) ==
    IF items = <<>> THEN Returns(d)
    ELSE LET item == Head(items)
         IN  IF item.t \in {"num", "null"} THEN Failed("TypeError", d)
             ELSE IF ItemLen(item) # 2 THEN Failed("ValueError", d)
             ELSE IF PairOf(item)[1].t \in {"list", "obj"} THEN Failed("TypeError", d)
             ELSE UpdateFromPairs(JPut(d, HashKey(PairOf(item)[1]), PairOf(item)[2]),
                                  Tail(items))

\* self.data.update(other)
DictUpdate(d, other) ==
    CASE other.t = "obj"  -> Returns(JPutAll(d, other.k, other.v))
      [] other.t = "list" -> UpdateFromPairs(d, other.v)
      [] other.t = "str"  -> IF other.s = <<>> THEN Returns(d) ELSE Failed("ValueError", d)
      [] OTHER            -> Failed("TypeError", d)

\* A path where no file is.
FileMissing == [t |-> "missing", s |-> <<>>, n |-> 0, k |-> <<>>, v |-> <<>>]

\* A file whose text is not JSON.
FileNotJson == [t |-> "not_json", s |-> <<>>, n |-> 0, k |-> <<>>, v |-> <<>>]

\* MemoryStore.__init__ with _load: every exception of the load is caught,
\* and what update stored before it failed stays.
_load(file) ==
    IF file.t \in {"missing", "not_json"} THEN Returns(DefaultData)
    ELSE Returns(DictUpdate(DefaultData, _sanitize(file)).data)

\* d[key], read: a mapping without the key raises KeyError, every other
\* type raises TypeError for a string key.
Subscript(d, key) ==
    IF d.t # "obj" THEN Failed("TypeError", JNull)
    ELSE IF ~JHas(d, key) THEN Failed("KeyError", JNull)
    ELSE Returns(JGet(d, key, JNull))

\* f"Round{round_no}"
RoundKey(round_no) == <<"Round", ToString(round_no)>>

max_keep == 120

\* The last n elements of s: s[-n:].
LastN(s, n) == IF Len(s) > n THEN SubSeq(s, Len(s) - n + 1, Len(s)) ELSE s

append_dialogue(data, line) ==
    LET history == JGet(data, Key("dialogue_history"), JNull)
    IN  IF history.t # "list" THEN Failed("AttributeError", data)
        ELSE Returns(JPut(data, Key("dialogue_history"),
                          JList(LastN(Append(history.v, JStr(_clean_str(line))),
                                      max_keep))))

\* str(j) of a string, a number or None, cleaned.
CleanText(j) ==
    CASE j.t = "str" -> _clean_str(j.s)
      [] j.t = "num" -> <<ToString(j.n)>>
      [] OTHER       -> <<"None">>

RECURSIVE SafeItems(_)
\* The votes add_votes keeps: mappings with a voter and a target.
SafeItems(items) ==
    IF items = <<>> THEN <<>>
    ELSE LET it == Head(items)
         IN  (IF /\ it.t = "obj"
                 /\ CleanText(JGet(it, Key("voter"), JStr(<<>>))) # <<>>
                 /\ CleanText(JGet(it, Key("target"), JStr(<<>>))) # <<>>
              THEN <<JObj(<<Key("voter"), Key("target")>>,
                          <<JStr(CleanText(JGet(it, Key("voter"), JStr(<<>>)))),
                            JStr(CleanText(JGet(it, Key("target"), JStr(<<>>))))>>)>>
              ELSE <<>>)
             \o SafeItems(Tail(items))

\* data[field][key] = value for a top-level field of the record.
StoreIn(data, field, key, value) ==
    IF JGet(data, field, JNull).t # "obj" THEN Failed("TypeError", data)
    ELSE Returns(JPut(data, field, JPut(JGet(data, field, JNull), key, value)))

add_votes(data, round_no, items) ==
    StoreIn(data, Key("votes"), RoundKey(round_no), JList(SafeItems(items)))

\* name in container
JContains(container, name) ==
    CASE container.t = "list" -> \E i \in 1..Len(container.v) : container.v[i] = JStr(name)
      [] container.t = "str"  -> Contains(name, container.s)
      [] OTHER                -> JHas(container, name)

mark_dead(data, name) ==
    LET facts == JGet(data, Key("facts"), JNull)
        dead == Subscript(facts, Key("dead"))
    IN  IF dead.raised # None THEN Failed(dead.raised, data)
        ELSE IF dead.data.t \in {"num", "null"} THEN Failed("TypeError", data)
        ELSE IF JContains(dead.data, _clean_str(name)) THEN Returns(data)
        ELSE IF dead.data.t # "list" THEN Failed("AttributeError", data)
        ELSE Returns(JPut(data, Key("facts"),
                          JPut(facts, Key("dead"),
                               JList(Append(dead.data.v, JStr(_clean_str(name)))))))

reveal_role(data, name, role_name) ==
    LET facts == JGet(data, Key("facts"), JNull)
        revealed == Subscript(facts, Key("revealed_roles"))
    IN  IF revealed.raised # None THEN Failed(revealed.raised, data)
        ELSE IF revealed.data.t # "obj" THEN Failed("TypeError", data)
        ELSE Returns(JPut(data, Key("facts"),
                          JPut(facts, Key("revealed_roles"),
                               JPut(revealed.data, _clean_str(name),
                                    JStr(_clean_str(role_name))))))

\* targets of update_suspicions
SuspicionTargets == <<"Minsu", "Jiyeon", "Hyunwoo", "Sua", "Harin", "Taehoon">>

\* The marker words of update_suspicions.
Markers == {<<"su", "sang">>, <<"ui", "sim">>}

HasMarker(text) == \E m \in Markers : Contains(m, text)

\* l.split(": ", 1) of a line that holds ": ".
ColonAt(l) ==
    CHOOSE i \in 1..Len(l) :
        /\ SubSeq(l, i, i + 1) = Colon
        /\ \A j \in 1..(i - 1) : SubSeq(l, j, j + 1) # Colon

SpeakerPart(l) == SubSeq(l, 1, ColonAt(l) - 1)

TextPart(l) == SubSeq(l, ColonAt(l) + 2, Len(l))

\* f"{speaker}->{cand}"
SuspicionKey(speaker, cand) == speaker \o <<"-", ">">> \o cand

RECURSIVE SuspectEach(_, _, _, _)
\* The loop over the targets for one line.
SuspectEach(data, speaker, text, cands) ==
    IF cands = <<>> THEN Returns(data)
    ELSE IF /\ Spell(Head(cands)) # speaker
            /\ Contains(Spell(Head(cands)), text)
            /\ HasMarker(text)
    THEN LET suspicions == JGet(data, Key("suspicions"), JNull)
             key == SuspicionKey(speaker, Spell(Head(cands)))
         IN  IF suspicions.t # "obj" THEN Failed("AttributeError", data)
             ELSE IF JGet(suspicions, key, JNum(0)).t # "num" THEN Failed("TypeError", data)
             ELSE SuspectEach(JPut(data, Key("suspicions"),
                                   JPut(suspicions, key,
                                        JNum(JGet(suspicions, key, JNum(0)).n + 1))),
                              speaker, text, Tail(cands))
    ELSE SuspectEach(data, speaker, text, Tail(cands))

RECURSIVE update_suspicions(_, _)
update_suspicions(data, lines) ==
    IF lines = <<>> THEN Returns(data)
    ELSE LET l == _clean_str(Head(lines))
         IN  IF ~Contains(Colon, l) THEN update_suspicions(data, Tail(lines))
             ELSE LET res == SuspectEach(data, SpeakerPart(l), TextPart(l), SuspicionTargets)
                  IN  IF res.raised # None THEN res
                      ELSE update_suspicions(res.data, Tail(lines))

window == 20

\* The lines of ls that speaker said.
SaidBy(speaker, ls) ==
    Cardinality({i \in 1..Len(ls) :
                    /\ Contains(Colon, _clean_str(ls[i]))
                    /\ SpeakerPart(_clean_str(ls[i])) = speaker})

\* round(1.0 - cnt / total, 3), in thousandths.
QuietRatio(cnt, total) ==
    LET q == ((total - cnt) * 1000) \div total
        r == ((total - cnt) * 1000) % total
    IN  IF 2 * r > total \/ (2 * r = total /\ q % 2 = 1) THEN q + 1 ELSE q

RECURSIVE QuietEach(_, _, _, _)
\* The loop over the living names.
QuietEach(data, names, ls, total) ==
    IF names = <<>> THEN Returns(data)
    ELSE LET res == StoreIn(data, Key("quietness"), Head(names),
                            JNum(QuietRatio(SaidBy(Head(names), ls), total)))
         IN  IF res.raised # None THEN res
             ELSE QuietEach(res.data, Tail(names), ls, total)

update_quietness(data, alive_names, recent_dialogues) ==
    LET window_lines == LastN(recent_dialogues, window)
        spoken == Cardinality({i \in 1..Len(window_lines) :
                                  Contains(Colon, _clean_str(window_lines[i]))})
    IN  QuietEach(data, alive_names, window_lines, IF spoken = 0 THEN 1 ELSE spoken)

max_len == 220

set_round_summary(data, round_no, summary) ==
    LET s == Strip(_clean_str(summary))
    IN  StoreIn(data, Key("round_summaries"), RoundKey(round_no),
                JStr(IF Len(s) > max_len
                     THEN Append(SubSeq(s, 1, max_len - 1), "ellipsis") ELSE s))

\* The place of the first largest count from position 1 on.
FirstLargest(vals) ==
    CHOOSE i \in 1..Len(vals) :
        /\ \A j \in 1..Len(vals) : vals[j].n <= vals[i].n
        /\ \A j \in 1..(i - 1) : vals[j].n < vals[i].n

Without(s, i) == SubSeq(s, 1, i - 1) \o SubSeq(s, i + 1, Len(s))

RECURSIVE SortedItems(_, _)
\* sorted(d.items(), key=lambda x: -x[1]): larger counts first, equal counts
\* in the order of the mapping.
SortedItems(keys, vals) ==
    IF keys = <<>> THEN <<>>
    ELSE LET i == FirstLargest(vals)
         IN  <<JList(<<JStr(keys[i]), vals[i]>>)>>
             \o SortedItems(Without(keys, i), Without(vals, i))

TopSuspicions == 5

\* The value 0.5 that build_prompt_snapshot gives a name without a quietness,
\* in thousandths.
QuietDefault == 500

\* The snapshot, as the value its JSON text holds.
build_prompt_snapshot(data, alive_names, round_no) ==
    LET summaries == JGet(data, Key("round_summaries"), JNull)
        facts == JGet(data, Key("facts"), JNull)
        dead == Subscript(facts, Key("dead"))
        revealed == Subscript(facts, Key("revealed_roles"))
        suspicions == JGet(data, Key("suspicions"), JNull)
        quiet == JGet(data, Key("quietness"), JNull)
    IN  IF summaries.t # "obj" THEN Failed("AttributeError", JNull)
        ELSE IF dead.raised # None THEN Failed(dead.raised, JNull)
        ELSE IF revealed.raised # None THEN Failed(revealed.raised, JNull)
        ELSE IF suspicions.t # "obj" THEN Failed("AttributeError", JNull)
        ELSE IF \E i \in 1..Len(suspicions.v) : suspicions.v[i].t # "num"
             THEN Failed("TypeError", JNull)
        ELSE IF alive_names # <<>> /\ quiet.t # "obj" THEN Failed("AttributeError", JNull)
        ELSE Returns(_sanitize(
                JObj(<<Key("alive"), Key("dead"), Key("revealed_roles"),
                       Key("top_suspicions"), Key("quietness"),
                       Key("last_round_summary")>>,
                     <<JList([i \in 1..Len(alive_names) |-> JStr(alive_names[i])]),
                       dead.data,
                       revealed.data,
                       JList(SubSeq(SortedItems(suspicions.k, suspicions.v), 1,
                                    IF Len(suspicions.k) < TopSuspicions
                                    THEN Len(suspicions.k) ELSE TopSuspicions)),
                       JPutAll(JObj(<<>>, <<>>), alive_names,
                               [i \in 1..Len(alive_names) |->
                                   JGet(quiet, alive_names[i], JNum(QuietDefault))]),
                       JGet(summaries, RoundKey(round_no - 1), JStr(<<>>))>>)))

(***************************************************************************)
(* Files, transcripts and arguments handed to the MemoryStore.             *)
(***************************************************************************)
\* A file that holds one top-level field.
Saved(field, value) == JObj(<<Key(field)>>, <<value>>)

JEmpty == JObj(<<>>, <<>>)

AccusesJiyeon == FormatLine("Minsu", SuspectsJiyeon)

\* Files save() wrote.
SavedFiles ==
    { JEmpty,
      DefaultData,
      JPutAll(DefaultData,
              <<Key("dialogue_history"), Key("suspicions")>>,
              <<JList(<<JStr(AccusesJiyeon)>>),
                JObj(<<SuspicionKey(Spell("Minsu"), Spell("Jiyeon"))>>, <<JNum(1)>>)>>),
      Saved("suspicions",
            JObj(<<SuspicionKey(Spell("Minsu"), Spell("Jiyeon")),
                   SuspicionKey(Spell("Sua"), Spell("Minsu"))>>,
                 <<JNum(1), JNum(2)>>)),
      Saved("facts", JObj(<<Key("dead"), Key("revealed_roles")>>,
                          <<JList(<<JStr(Spell("Jiyeon"))>>), JEmpty>>)) }

\* Files with characters that cannot be encoded, and with keys that are
\* equal once cleaned.
SurrogateFiles ==
    { Saved("dialogue_history",
            JList(<<JStr(<<Surrogate, "a", Surrogate>>), JStr(<<"b">>)>>)),
      JObj(<<<<"a", Surrogate>>, <<"a">>, <<Surrogate, "b", Surrogate>>>>,
           <<JNum(1), JStr(<<Surrogate>>), JList(<<JStr(<<Surrogate, Surrogate, "c">>)>>)>>),
      Saved("round_summaries",
            JObj(<<<<"Round", "1">>, <<"Round", Surrogate, "1">>>>,
                 <<JStr(<<"a">>), JStr(<<"b", Surrogate>>)>>)) }

\* Valid JSON with a field of the wrong type, or with facts that lacks a key.
CorruptFiles ==
    { Saved("dialogue_history", JNum(5)),
      Saved("dialogue_history", JStr(<<"a", "b">>)),
      Saved("facts", JEmpty),
      Saved("facts", Saved("dead", JList(<<>>))),
      Saved("facts", JList(<<>>)),
      Saved("facts", JObj(<<Key("dead"), Key("revealed_roles")>>,
                          <<JStr(Spell("Jiyeon")), JNull>>)),
      Saved("suspicions", JList(<<>>)),
      Saved("suspicions", JObj(<<SuspicionKey(Spell("Minsu"), Spell("Jiyeon"))>>,
                               <<JStr(<<"a">>)>>)),
      Saved("quietness", JNum(3)),
      Saved("votes", JNull),
      Saved("round_summaries", JList(<<>>)) }

\* JSON values that are no mapping.
NonMappingFiles ==
    { JNull, JNum(3), JStr(<<>>), JStr(<<"a", "b">>), JList(<<>>),
      JList(<<JNum(1)>>),
      JList(<<JStr(<<"a", "b">>)>>),
      JList(<<JStr(Key("votes"))>>),
      JList(<<JList(<<JStr(Key("dialogue_history")), JNum(5)>>)>>),
      JList(<<JList(<<JStr(Key("votes")), JNull>>), JNum(5)>>),
      JList(<<JList(<<JList(<<>>), JNum(1)>>)>>),
      JList(<<JList(<<JNum(1), JNum(2)>>), JList(<<JNull, JNum(2)>>)>>),
      JList(<<JObj(<<Key("facts"), Key("dead")>>, <<JNum(1), JNum(2)>>)>>) }

FileContents ==
    {FileMissing, FileNotJson} \cup SavedFiles \cup SurrogateFiles
    \cup CorruptFiles \cup NonMappingFiles

\* Lines of a transcript: with a marker word and the speaker's own name, with
\* two names, without a marker, with a name that appears once the line is
\* cleaned, and without a speaker.
MemoryLines ==
    { FormatLine("Minsu", SuspectsJiyeon \o <<" ">> \o Spell("Minsu")),
      FormatLine(Human, Spell("Jiyeon") \o <<" ">> \o Spell("Sua") \o <<" ">> \o <<"ui", "sim">>),
      FormatLine("Sua", Spell("Jiyeon")),
      FormatLine("Harin", <<"ji", Surrogate, "yeon", " ", "su", "sang">>),
      <<"su", "sang">> }

MaxLines == 2

\* Transcripts of up to MaxLines different lines.
MemoryTranscripts ==
    UNION {{t \in [1..n -> MemoryLines] : \A i, j \in 1..n : t[i] = t[j] => i = j} :
              n \in 0..MaxLines}

MaxSuspicion == 2

\* The names of the living players, as the caller hands them in.
AliveNames(al) == [i \in 1..Len(alive_players(al)) |-> Spell(alive_players(al)[i])]

VoteItems ==
    { <<>>,
      <<JObj(<<Key("voter"), Key("target")>>, <<JStr(Spell("Minsu")), JStr(Spell("Jiyeon"))>>),
        JNum(1),
        JObj(<<Key("voter")>>, <<JStr(Spell("Sua"))>>)>> }

InitMemory ==
    /\ round = 1
    /\ phase = "NIGHT"
    /\ alive \in {[n \in Names |-> n \notin gone] : gone \in {{}, {"Jiyeon"}}}
    /\ role = [n \in Names |-> IF n = "Minsu" THEN "MAFIA" ELSE "CITIZEN"]
    /\ log = <<>>
    /\ dialogue_history \in MemoryTranscripts
    /\ last_line_by_name = EmptyDict
    /\ dialogue_round_start_idx = 0
    /\ NoCall
    /\ NoSession
    /\ llm_reply = None
    /\ mem_file \in FileContents
    /\ mem_data = JNull
    /\ snapshot = JNull
    /\ raised = None
    /\ vote_input = None

\* What a call on the store leaves: the record, the exception, the position.
StoreCall(name, res) ==
    /\ pc' = name
    /\ raised' = res.raised
    /\ mem_data' = res.data
    /\ UNCHANGED <<gsVars, callVars, sessionVars, llm_reply, mem_file, snapshot, vote_input>>

\* MemoryStore(path)
MemoryStoreNew ==
    /\ pc = "ready"
    /\ StoreCall("MemoryStore", _load(mem_file))

AppendDialogue ==
    /\ pc = "MemoryStore"
    /\ \E line \in MemoryLines : StoreCall("append_dialogue", append_dialogue(mem_data, line))

AddVotes ==
    /\ pc = "MemoryStore"
    /\ \E items \in VoteItems : StoreCall("add_votes", add_votes(mem_data, round, items))

MarkDeadName ==
    /\ pc = "MemoryStore"
    /\ \E n \in {"Jiyeon", "Sua"} : StoreCall("mark_dead", mark_dead(mem_data, Spell(n)))

RevealRole ==
    /\ pc = "MemoryStore"
    /\ \E n \in {"Jiyeon", "Minsu"} :
          StoreCall("reveal_role", reveal_role(mem_data, Spell(n), <<role[n]>>))

\* The counters of the record, when suspicions is a mapping of numbers.
SuspicionsBelow(data, most) ==
    LET suspicions == JGet(data, Key("suspicions"), JNull)
    IN  \A i \in 1..Len(suspicions.v) :
           suspicions.v[i].t = "num" => suspicions.v[i].n < most

UpdateSuspicions ==
    /\ pc \in {"MemoryStore", "update_suspicions"}
    /\ raised = None
    /\ SuspicionsBelow(mem_data, MaxSuspicion)
    /\ StoreCall("update_suspicions", update_suspicions(mem_data, dialogue_history))

UpdateQuietness ==
    /\ pc = "MemoryStore"
    /\ StoreCall("update_quietness",
                 update_quietness(mem_data, AliveNames(alive), dialogue_history))

SetRoundSummary ==
    /\ pc = "MemoryStore"
    /\ \E summary \in {<<>>, <<" ", "a", Surrogate, " ">>} :
          StoreCall("set_round_summary", set_round_summary(mem_data, round, summary))

BuildPromptSnapshot ==
    /\ pc = "MemoryStore"
    /\ pc' = "build_prompt_snapshot"
    /\ \E res \in {build_prompt_snapshot(mem_data, AliveNames(alive), round)} :
          /\ raised' = res.raised
          /\ snapshot' = res.data
    /\ UNCHANGED <<gsVars, callVars, sessionVars, llm_reply, mem_file, mem_data, vote_input>>

\* save(): the sanitized record goes to the file.
Save ==
    /\ pc \notin {"ready", "save", "build_prompt_snapshot"}
    /\ raised = None
    /\ pc' = "save"
    /\ mem_file' = _sanitize(mem_data)
    /\ UNCHANGED <<gsVars, callVars, sessionVars, llm_reply, mem_data, snapshot, raised,
                   vote_input>>

NextMemory ==
    \/ MemoryStoreNew
    \/ AppendDialogue
    \/ AddVotes
    \/ MarkDeadName
    \/ RevealRole
    \/ UpdateSuspicions
    \/ UpdateQuietness
    \/ SetRoundSummary
    \/ BuildPromptSnapshot
    \/ Save

SpecMemory == InitMemory /\ [][NextMemory]_vars


(***************************************************************************)
(* Properties of mafia_kill (checked under SpecEngine).                    *)
(***************************************************************************)
Living(al) == {n \in Names : al[n]}

\* C1: when round = 1, mafia_kill returns no victim, changes no player's
\* alive flag and appends exactly the one fixed "peaceful first night" entry
\* to the event log, whatever the transcript contains.
C1_FirstNightPeaceful ==
    [][(pc' = "mafia_kill" /\ round = 1) =>
          /\ killed' = None
          /\ alive' = alive
          /\ log' = Append(log, FirstNightEntry)
          /\ UNCHANGED <<round, phase, role, dialogue_history>>]_vars

\* A first night over a transcript that mentions living players.
C1_Witness ==
    /\ pc = "mafia_kill"
    /\ round = 1
    /\ killed = None
    /\ log = <<FirstNightEntry>>
    /\ Len(dialogue_history) > KillWindow
    /\ \E n \in Living(alive) : role[n] = "CITIZEN" /\ KillCounts({n}, dialogue_history)[n] > 0
    /\ mafia_alive(alive, role) = 1

\* C5: when mafia_kill with round >= 2 returns a victim, the victim was a
\* living player other than the living mafia before the call, is dead after
\* it, no other alive flag changed and exactly one audit entry was appended.
C5_VictimIsLivingNonMafia ==
    [][(pc' = "mafia_kill" /\ round >= 2 /\ killed' # None) =>
          /\ killed' \in Names
          /\ alive[killed']
          /\ killed' # get_current_mafia(alive, role)
          /\ role[killed'] # "MAFIA"
          /\ ~alive'[killed']
          /\ \A n \in Names \ {killed'} : alive'[n] = alive[n]
          /\ log' = Append(log, NightDeathEntry(killed'))]_vars

\* The human is killed at night.
C5_Witness ==
    /\ pc = "mafia_kill"
    /\ round >= 2
    /\ killed = Human
    /\ ~alive[Human]
    /\ mafia_alive(alive, role) = 1
    /\ log = <<NightDeathEntry(Human)>>

\* The number of lines among the last min(30, length) of hist that contain name n.
RecentLinesWith(n, hist) ==
    Cardinality({i \in 1..Len(hist) : i > Len(hist) - 30 /\ Contains(Spell(n), hist[i])})

\* The number of lines of the whole of hist that contain name n.
AllLinesWith(n, hist) ==
    Cardinality({i \in 1..Len(hist) : Contains(Spell(n), hist[i])})

C7_NoMafiaOrNoCandidateIsNoOp ==
    [][(/\ pc' = "mafia_kill"
        /\ round >= 2
        /\ \/ mafia_alive(alive, role) = 0
           \/ \E m \in Names : role[m] = "MAFIA" /\ Living(alive) = {m}) =>
          /\ killed' = None
          /\ UNCHANGED gsVars]_vars

\* No mafia is alive, citizens are, and the transcript mentions one of them.
C7_Witness ==
    /\ pc = "mafia_kill"
    /\ round >= 2
    /\ mafia_alive(alive, role) = 0
    /\ citizen_alive(alive, role) >= 2
    /\ \E n \in Living(alive) : RecentLinesWith(n, dialogue_history) > 0
    /\ killed = None
    /\ log = <<>>

(***************************************************************************)
(* Properties of tally_votes_plurality and of the caller's use of its      *)
(* result (checked under SpecTally).                                       *)
(***************************************************************************)
\* The number of voters of v that chose target t.
VotesFor(v, t) == Cardinality({x \in DOMAIN v : v[x] = t})

\* The targets a vote may validly name: the living players and the label.
ValidTargets(al) == Living(al) \cup {NoLynchLabel}

\* Target t alone holds the maximum count among the valid targets.
UniqueMax(v, al, t) ==
    /\ t \in ValidTargets(al)
    /\ VotesFor(v, t) >= 1
    /\ \A o \in ValidTargets(al) \ {t} : VotesFor(v, o) < VotesFor(v, t)

\* C2: when exactly one target holds the maximum count and it is a living
\* player, tally_votes_plurality returns that target as executed; once the
\* caller has applied the result that player is dead and no other player's
\* alive flag has changed.
C2_UniqueMaxIsExecuted ==
    [][pc' = "vote" =>
          \A t \in Names :
              UniqueMax(v_dict', alive, t) =>
                  /\ executed' = t
                  /\ ~alive'[t]
                  /\ \A n \in Names \ {t} : alive'[n] = alive[n]
                  /\ log' = Append(log, ExecutedEntry(t))]_vars

\* A majority of two against a vote for another living player.
C2_Witness ==
    /\ pc = "vote"
    /\ executed \in Names
    /\ ~alive[executed]
    /\ VotesFor(v_dict, executed) = 2
    /\ \E o \in Living(alive) : VotesFor(v_dict, o) = 1
    /\ log = <<ExecutedEntry(executed)>>

\* Two or more valid targets share the maximum count.
TiedMax(v, al) ==
    \E t1, t2 \in ValidTargets(al) :
        /\ t1 # t2
        /\ VotesFor(v, t1) >= 1
        /\ VotesFor(v, t1) = VotesFor(v, t2)
        /\ \A o \in ValidTargets(al) : VotesFor(v, o) <= VotesFor(v, t1)

\* C3: when two or more valid targets share the maximum count,
\* tally_votes_plurality returns no execution, whichever names tie and
\* whether or not the no-lynch label is among them.
C3_TieIsNoExecution ==
    [][(pc' = "vote" /\ TiedMax(v_dict', alive)) =>
          /\ executed' = None
          /\ alive' = alive]_vars

\* Votes {A: B, B: A} on living A and B: one vote each, nobody executed.
C3_Witness ==
    /\ pc = "vote"
    /\ \E a, b \in Living(alive) :
          /\ a # b
          /\ v_dict = [x \in {a, b} |-> IF x = a THEN b ELSE a]
    /\ allow_no_lynch
    /\ executed = None
    /\ DOMAIN counter = DOMAIN v_dict

RECURSIVE SumOver(_, _)
SumOver(f, S) ==
    IF S = {} THEN 0
    ELSE LET x == CHOOSE y \in S : TRUE IN f[x] + SumOver(f, S \ {x})

\* C8: the returned count map has as keys exactly the valid targets that
\* received at least one vote, each mapped to the number of voters that
\* chose it; votes for any other target add to no count, so the counts sum
\* to the number of valid votes.  Living {A,B,C} with votes {B: C, C: C,
\* A: no-lynch} gives executed C and counts {C: 2, no-lynch: 1}.
C8_CounterCountsValidVotesOnly ==
    [][pc' = "vote" =>
          /\ DOMAIN counter' = {t \in ValidTargets(alive) : VotesFor(v_dict', t) >= 1}
          /\ \A t \in DOMAIN counter' : counter'[t] = VotesFor(v_dict', t)
          /\ SumOver(counter', DOMAIN counter')
                = Cardinality({x \in DOMAIN v_dict' : v_dict'[x] \in ValidTargets(alive)})
          /\ (/\ alive["You"] /\ alive["Minsu"] /\ alive["Jiyeon"]
              /\ v_dict' = [x \in {"You", "Minsu", "Jiyeon"} |->
                               IF x = "You" THEN NoLynchLabel ELSE "Jiyeon"])
                => /\ executed' = "Jiyeon"
                   /\ counter' = [t \in {"Jiyeon", NoLynchLabel} |->
                                     IF t = "Jiyeon" THEN 2 ELSE 1]]_vars

\* One vote for a name that is no player's, one for a dead player, one valid.
C8_Witness ==
    /\ pc = "vote"
    /\ \E x \in DOMAIN v_dict : v_dict[x] = Stranger
    /\ \E x \in DOMAIN v_dict : v_dict[x] \in Names /\ ~alive[v_dict[x]] /\ executed # v_dict[x]
    /\ Cardinality(DOMAIN counter) = 1
    /\ \A t \in DOMAIN counter : counter[t] = 1

\* C9: when the vote map is empty or every vote in it has an invalid target,
\* tally_votes_plurality returns no execution and an empty count map.
C9_NoValidVoteIsEmptyResult ==
    [][(pc' = "vote" /\ \A x \in DOMAIN v_dict' : v_dict'[x] \notin ValidTargets(alive)) =>
          /\ executed' = None
          /\ counter' = EmptyDict
          /\ alive' = alive]_vars

\* Three votes, every one of them invalid.
C9_Witness ==
    /\ pc = "vote"
    /\ Cardinality(DOMAIN v_dict) = MaxVoters
    /\ \A x \in DOMAIN v_dict : v_dict[x] \notin ValidTargets(alive)
    /\ \E x \in DOMAIN v_dict : v_dict[x] \in Names
    /\ executed = None
    /\ counter = EmptyDict

\* C10: when the no-lynch label alone holds the maximum count,
\* tally_votes_plurality returns no execution; for every input and either
\* value of allow_no_lynch the executed result is None or a member of the
\* living list passed in, never the label or any other name.
C10_ExecutedIsNoneOrLiving ==
    [][pc' = "vote" =>
          /\ executed' # NoLynchLabel
          /\ executed' # None => (executed' \in Names /\ alive[executed'])
          /\ UniqueMax(v_dict', alive, NoLynchLabel) => executed' = None]_vars

\* The label alone holds the maximum although allow_no_lynch is false.
C10_Witness ==
    /\ pc = "vote"
    /\ ~allow_no_lynch
    /\ UniqueMax(v_dict, alive, NoLynchLabel)
    /\ \E t \in Living(alive) : VotesFor(v_dict, t) >= 1
    /\ executed = None

(***************************************************************************)
(* Property of check_win (checked under SpecEngine).                       *)
(***************************************************************************)
\* C4: check_win returns CITIZEN_WIN if and only if no MAFIA player is
\* alive, and MAFIA_WIN if and only if the living MAFIA players are at least
\* as many as the living CITIZEN players; the two conditions never hold of
\* the same state.
C4_CheckWinIff ==
    pc = "check_win" =>
        /\ win = "CITIZEN_WIN" <=> mafia_alive(alive, role) = 0
        /\ win = "MAFIA_WIN" <=> mafia_alive(alive, role) >= citizen_alive(alive, role)
        /\ ~(/\ mafia_alive(alive, role) = 0
             /\ mafia_alive(alive, role) >= citizen_alive(alive, role))

(***************************************************************************)
(* Properties of mention_counts_for_today and top_two_mentions (checked    *)
(* under SpecMention).                                                     *)
(***************************************************************************)
\* The living players other than the human.
LivingAI(al) == {n \in Names : al[n] /\ n # Human}

\* The places <<i, j>> where name n starts at character j of line i, over
\* the lines after the first idx lines of hist.
OccurrencesFrom(n, hist, idx) ==
    {p \in UNION {{<<i, j>> : j \in 1..(Len(hist[i]) - Len(Spell(n)) + 1)} :
                      i \in (idx + 1)..Len(hist)} :
        SubSeq(hist[p[1]], p[2], p[2] + Len(Spell(n)) - 1) = Spell(n)}

TodayCount(n) ==
    Cardinality(OccurrencesFrom(n, dialogue_history, dialogue_round_start_idx))

\* C11: when the day window is empty (the day start index equals the
\* transcript length) mention_counts_for_today maps every living non-human
\* player to 0, and top_two_mentions returns exactly two distinct names,
\* both living non-human players, whenever at least two such players exist.
C11_EmptyWindowZeroAndTwoNames ==
    dialogue_round_start_idx = Len(dialogue_history) =>
        /\ pc = "mention_counts_for_today" =>
              /\ DOMAIN mention_counts = LivingAI(alive)
              /\ \A n \in LivingAI(alive) : mention_counts[n] = 0
        /\ (pc = "top_two_mentions" /\ Cardinality(LivingAI(alive)) >= 2) =>
              /\ Len(top_two) = 2
              /\ top_two[1] # top_two[2]
              /\ Range(top_two) \subseteq LivingAI(alive)

\* Two names are returned for an empty window that follows lines naming
\* living players, none of the two being one the earlier lines name.
C11_Witness ==
    /\ pc = "top_two_mentions"
    /\ dialogue_round_start_idx = Len(dialogue_history)
    /\ Cardinality(LivingAI(alive)) >= 3
    /\ \E n \in LivingAI(alive) :
          /\ OccurrencesFrom(n, dialogue_history, 0) # {}
          /\ n \notin Range(top_two)
    /\ Len(top_two) = 2

\* C12: mention_counts_for_today returns a map whose keys are exactly the
\* living players other than the human, each mapped to the number of
\* occurrences of its name in the transcript lines from the day start index
\* on (two occurrences in one line count twice); earlier lines and dead
\* players contribute nothing, and the call changes no state.
C12_CountsOccurrencesInDayWindow ==
    [][pc' = "mention_counts_for_today" =>
          /\ DOMAIN mention_counts' = LivingAI(alive)
          /\ \A n \in LivingAI(alive) : mention_counts'[n] = TodayCount(n)
          /\ UNCHANGED gsVars]_vars

\* One line of the window names a living player twice, a line before the
\* window names it too, and the window names a dead player.
C12_Witness ==
    /\ pc = "mention_counts_for_today"
    /\ dialogue_round_start_idx = Len(dialogue_history) - 1
    /\ dialogue_round_start_idx >= 1
    /\ \E n \in DOMAIN mention_counts :
          /\ mention_counts[n] = 2
          /\ Cardinality(OccurrencesFrom(n, dialogue_history, 0)) > 2
    /\ \E d \in Names : ~alive[d] /\ d # Human /\ TodayCount(d) > 0

\* a comes before b in the order (descending count, ascending name).
RanksBefore(a, b) ==
    \/ TodayCount(a) > TodayCount(b)
    \/ TodayCount(a) = TodayCount(b) /\ SortIndex(a) < SortIndex(b)

MentionedToday == {n \in LivingAI(alive) : TodayCount(n) > 0}

C14_CreateDefaultGameState ==
    /\ \A m \in Names \ {Human} : \E gs \in create_default_game : gs.role[m] = "MAFIA"
    /\ Cardinality(Names \ {Human}) = 6
    /\ pc = "create_default_game" =>
          /\ DOMAIN role = Names
          /\ DOMAIN alive = Names
          /\ Cardinality(DOMAIN role) = 7
          /\ \A n \in Names : alive[n]
          /\ Cardinality({n \in Names : role[n] = "MAFIA"}) = 1
          /\ role[Human] # "MAFIA"
          /\ \A n \in Names : role[n] \in {"MAFIA", "CITIZEN"}
          /\ round = 1
          /\ phase = "NIGHT"
          /\ dialogue_history = <<>>
          /\ log = <<>>
          /\ last_line_by_name = EmptyDict
          /\ dialogue_round_start_idx = 0

\* C14 witness: a game just created, with the last AI player of the roster as
\* the mafia.
C14_Witness ==
    /\ pc = "create_default_game"
    /\ role[Roster[7]] = "MAFIA"
    /\ \A n \in Names : alive[n]

(***************************************************************************)
(* C15: after any sequence of engine and driver operations on one game     *)
(* exactly one player has role MAFIA and no role ever changes; the number  *)
(* of living MAFIA players is 1 until that player is eliminated and 0      *)
(* forever after.  A step that starts a new game is not a step of the same *)
(* game.                                                                   *)
(***************************************************************************)
C15_OneMafiaRolesNeverChange ==
    [][ /\ Cardinality({n \in Names : role[n] = "MAFIA"}) = 1
        /\ Cardinality({n \in Names : role'[n] = "MAFIA"}) = 1
        /\ mafia_alive(alive, role) \in {0, 1}
        /\ pc' # "create_default_game" =>
              /\ role' = role
              /\ mafia_alive(alive', role') <= mafia_alive(alive, role)
      ]_vars

\* C15 witness: a discussion turn held after the mafia was eliminated.
C15_Witness ==
    /\ pc = "discuss"
    /\ mafia_alive(alive, role) = 0
    /\ Cardinality({n \in Names : role[n] = "MAFIA"}) = 1

(***************************************************************************)
(* C16: during one game the set of player names never changes and an alive *)
(* flag only goes from true to false; each night kill and each execution   *)
(* eliminates a player that was alive, and nobody else.                    *)
(***************************************************************************)
NightStep ==
    \/ driver = "main" /\ pc = "round_start"
    \/ driver \in UIDrivers /\ ui_phase = "NIGHT" /\ pc' = "night"

VoteStep ==
    \/ driver = "main" /\ pc = "to_vote"
    \/ driver \in UIDrivers /\ ui_phase = "DAY_VOTE" /\ pc' = "vote"

Eliminates(n) ==
    /\ alive[n]
    /\ alive' = [alive EXCEPT ![n] = FALSE]

C16_AliveOnlyFalls ==
    [][ pc' # "create_default_game" =>
          /\ DOMAIN alive' = Names
          /\ DOMAIN role' = Names
          /\ DOMAIN alive = Names
          /\ \A n \in Names : alive'[n] => alive[n]
          /\ alive' # alive => NightStep \/ VoteStep
          /\ NightStep /\ alive' # alive => Eliminates(killed')
          /\ VoteStep /\ alive' # alive => Eliminates(executed')
          /\ VoteStep /\ executed' # None => Eliminates(executed')
          /\ NightStep /\ killed' # None /\ (driver = "main" \/ first_night_done)
                => Eliminates(killed')
      ]_vars

\* C16 witness: the night of round 2 has killed a player after the vote of
\* round 1 executed another one.
C16_Witness ==
    /\ pc \in {"night", "exit"}
    /\ round = 2
    /\ killed # None /\ ~alive[killed]
    /\ executed # None /\ ~alive[executed]
    /\ killed # executed
    /\ Cardinality({n \in Names : ~alive[n]}) = 2

(***************************************************************************)
(* C17: the transcript is append-only for the lifetime of a game: under    *)
(* every operation the drivers offer (night, discussion, vote and the UI   *)
(* sidebar actions) the transcript before the operation is a prefix of the *)
(* transcript after it.  The new-game button ends the game and is left out.*)
(***************************************************************************)
IsPrefix(s, t) ==
    /\ Len(s) <= Len(t)
    /\ \A i \in 1..Len(s) : s[i] = t[i]

C17_TranscriptAppendOnly ==
    [][ pc' # "create_default_game" =>
          IsPrefix(dialogue_history, dialogue_history') ]_vars

(***************************************************************************)
(* C18: in every reachable state of every driver the day-window start      *)
(* index (dialogue_round_start_idx in main.py, day_start_idx in the UIs)   *)
(* is at most the transcript length, and it is set to the transcript       *)
(* length on each entry into the day-discussion phase and at no other      *)
(* time.                                                                   *)
(***************************************************************************)
DriverPhase == IF driver = "main" THEN phase ELSE ui_phase

DayWindowStart == IF driver = "main" THEN dialogue_round_start_idx ELSE day_start_idx

C18_DayWindowStartWithinTranscript ==
    [][ pc' # "create_default_game" =>
          /\ DayWindowStart <= Len(dialogue_history)
          /\ DayWindowStart' <= Len(dialogue_history')
          /\ IF DriverPhase # "DAY_DISCUSS" /\ DriverPhase' = "DAY_DISCUSS"
             THEN DayWindowStart' = Len(dialogue_history')
             ELSE DayWindowStart' = DayWindowStart
      ]_vars

(***************************************************************************)
(* C19: after one discussion turn, for every reply of the text service,    *)
(* each living AI player has exactly one new transcript entry of that      *)
(* turn; a player the reply omitted has one fallback phrase.               *)
(***************************************************************************)
NewEntries == SubSeq(dialogue_history', Len(dialogue_history) + 1, Len(dialogue_history'))

SpokenBy(n, line) ==
    /\ Len(line) >= Len(Spell(n)) + Len(Colon)
    /\ SubSeq(line, 1, Len(Spell(n)) + Len(Colon)) = Spell(n) \o Colon

EntriesOf(n, entries) == {i \in 1..Len(entries) : SpokenBy(n, entries[i])}

OmittedByReply(n) == \A i \in 1..Len(response') : response'[i][1] # n

C19_OneEntryPerLivingAI ==
    [][ pc' = "discuss" =>
          \A n \in LivingAI(alive) :
             /\ Cardinality(EntriesOf(n, NewEntries)) = 1
             /\ OmittedByReply(n) =>
                   \E i \in 1..Len(NewEntries), f \in 1..Len(FALLBACKS) :
                      NewEntries[i] = FormatLine(n, FALLBACKS[f])
      ]_vars

(***************************************************************************)
(* C20: for every speaker and proposed line of a discussion turn, the line *)
(* written to the transcript is one of the fallback phrases if the         *)
(* proposed line is empty or whitespace, is a generic phrase, or equals    *)
(* that speaker's immediately preceding transcript line (a line of an      *)
(* earlier turn included); otherwise it is the proposed line with the      *)
(* surrounding whitespace removed.                                         *)
(***************************************************************************)
\* The text of an entry "speaker: text" of speaker n.
TextOf(n, line) == SubSeq(line, Len(Spell(n)) + Len(Colon) + 1, Len(line))

\* The text of the last entry of speaker n in hist, <<>> when there is none.
PrecedingTextOf(n, hist) ==
    LET own == EntriesOf(n, hist)
    IN  IF own = {} THEN <<>>
        ELSE TextOf(n, hist[CHOOSE i \in own : \A j \in own : j <= i])

\* The number of entries the human wrote at the head of the turn.
HumanEntries == IF NewEntries # <<>> /\ SpokenBy(Human, NewEntries[1]) THEN 1 ELSE 0

C20_AntiRepeatWrittenLine ==
    [][ pc' = "discuss" =>
          LET pairs == KeptPairs(response', alive)
          IN  \A i \in 1..Len(pairs) :
                 LET at == Len(dialogue_history) + HumanEntries + i
                     n == pairs[i][1]
                     norm == Strip(pairs[i][2])
                     before == SubSeq(dialogue_history', 1, at - 1)
                     written == TextOf(n, dialogue_history'[at])
                 IN  /\ SpokenBy(n, dialogue_history'[at])
                     /\ IF \/ norm = <<>>
                           \/ norm \in GENERIC_PHRASES
                           \/ norm = PrecedingTextOf(n, before)
                        THEN written \in Range(FALLBACKS)
                        ELSE written = norm
      ]_vars

(***************************************************************************)
(* C21: for every reply of the text service to a discussion request (no    *)
(* reply, unparseable text, an empty object, character_lines missing,      *)
(* null, not a list, or a list with non-object items or items without a    *)
(* name or line) the discussion turn completes without raising, the        *)
(* fallback filling is applied, and the game state is never left partially *)
(* updated.                                                                *)
(***************************************************************************)
C21_EveryReplyIsHandled ==
    [][ pc' = "day_discuss" =>
          /\ raised' = None
          /\ IsPrefix(dialogue_history, dialogue_history')
          /\ \A n \in LivingAI(alive) :
                Cardinality(EntriesOf(n, NewEntries)) >= 1
          /\ \A i \in 1..Len(NewEntries) :
                \E n \in LivingAI(alive) : SpokenBy(n, NewEntries[i])
      ]_vars

(***************************************************************************)
(* C22: in the vote step of every driver a human selection that is not in  *)
(* the legal set (the living AI players and the no-lynch label) is counted *)
(* as a vote for the no-lynch label; the vote is neither rejected nor      *)
(* dropped, and the tally holds exactly one vote of the human.             *)
(***************************************************************************)
LegalChoices == LivingAI(alive) \cup {NoLynchLabel}

C22_IllegalChoiceIsNoLynch ==
    [][ VoteStep /\ pc' # "create_default_game" =>
          /\ Human \in DOMAIN v_dict'
          /\ v_dict'[Human] = IF vote_input' \in LegalChoices
                              THEN vote_input' ELSE NoLynchLabel
          /\ v_dict'[Human] \in DOMAIN counter'
          /\ counter'[v_dict'[Human]] = VotesFor(v_dict', v_dict'[Human])
      ]_vars

\* C22 witness: the human entered a name that is no living AI player's and
\* the tally counted a no-lynch vote for it.
C22_Witness ==
    /\ pc \in {"vote", "exit"}
    /\ vote_input \notin {n \in Names : alive[n]} \cup {NoLynchLabel, None}
    /\ v_dict[Human] = NoLynchLabel
    /\ counter[NoLynchLabel] = 1

(***************************************************************************)
(* C23: in every driver, when the night resolution returns the human       *)
(* player as victim the game ends at once with a mafia-team win: no        *)
(* discussion, vote, further night kill or round increment happens         *)
(* afterwards in that game.  The human dies at night only.                 *)
(***************************************************************************)
C23_HumanDeathEndsGame ==
    [][ ~alive[Human] /\ pc' # "create_default_game" =>
          /\ pc' \notin {"night", "discuss", "vote"}
          /\ alive' = alive
          /\ round' = round
          /\ log' = log
      ]_vars

(***************************************************************************)
(* C24: in the command-line driver check_win is evaluated after every      *)
(* night resolution and after every vote before any further state change;  *)
(* the loop ends only when a win was detected (a winner returned, or the   *)
(* human killed at night), never where the game should go on, and always   *)
(* as soon as a win is due.                                                *)
(***************************************************************************)
WinDue(al, ro) ==
    \/ mafia_alive(al, ro) = 0
    \/ mafia_alive(al, ro) >= citizen_alive(al, ro)

HumanDiedAtNight == NightStep /\ killed' = Human

C24_LoopEndsExactlyOnWin ==
    [][ driver = "main" =>
          /\ pc # "exit"
          /\ (NightStep \/ VoteStep) =>
                /\ pc' = "exit" <=> (HumanDiedAtNight \/ WinDue(alive', role'))
                /\ ~HumanDiedAtNight => (win' # None <=> WinDue(alive', role'))
                /\ pc' = "exit" => round' = round
          /\ ~(NightStep \/ VoteStep) => pc' # "exit"
      ]_vars

C24_Witness ==
    /\ driver = "main"
    /\ pc = "exit"
    /\ win = "CITIZEN_WIN"
    /\ executed # None
    /\ ~alive[executed]

(***************************************************************************)
(* C25: for every record built from nested mappings, sequences, strings    *)
(* and numbers, _sanitize applied twice gives what _sanitize applied once  *)
(* gives.  The records are the file the store loads, the record it holds   *)
(* and the snapshot it returns.                                            *)
(***************************************************************************)
IsJson(x) == x.t \notin {"missing", "not_json"}

C25_SanitizeIdempotent ==
    \A x \in {mem_file, mem_data, snapshot} :
        IsJson(x) => _sanitize(_sanitize(x)) = _sanitize(x)

C25_Witness ==
    /\ pc = "MemoryStore"
    /\ mem_file.t = "obj"
    /\ Len(_sanitize(mem_file).k) < Len(mem_file.k)
    /\ \E i \in 1..Len(mem_file.v) :
          /\ mem_file.v[i].t = "list"
          /\ _sanitize(mem_file.v[i]) # mem_file.v[i]

(***************************************************************************)
(* C26: constructing a MemoryStore never raises, and when the file is      *)
(* missing, is not valid JSON or holds a JSON value that is no mapping,    *)
(* the record is the empty default record.                                 *)
(***************************************************************************)
C26_BadFileGivesDefault ==
    pc = "MemoryStore" =>
        /\ raised = None
        /\ mem_file.t # "obj" => mem_data = DefaultData

(***************************************************************************)
(* C27: after loading valid JSON that is partially corrupt (a top-level    *)
(* field of the wrong type, or facts without dead or revealed_roles) every *)
(* corrupt field holds its default value, and every later update           *)
(* operation completes without raising.                                    *)
(***************************************************************************)
Fields == {DefaultData.k[i] : i \in 1..Len(DefaultData.k)}

AllOf(j, type) == \A i \in 1..Len(j.v) : j.v[i].t = type

\* The value is what save() writes for the field.
WellFormed(field, j) ==
    CASE field = Key("dialogue_history") -> j.t = "list" /\ AllOf(j, "str")
      [] field = Key("facts") ->
            /\ j.t = "obj"
            /\ JHas(j, Key("dead")) /\ JHas(j, Key("revealed_roles"))
            /\ JGet(j, Key("dead"), JNull).t = "list"
            /\ AllOf(JGet(j, Key("dead"), JNull), "str")
            /\ JGet(j, Key("revealed_roles"), JNull).t = "obj"
            /\ AllOf(JGet(j, Key("revealed_roles"), JNull), "str")
      [] field \in {Key("suspicions"), Key("quietness")} -> j.t = "obj" /\ AllOf(j, "num")
      [] field = Key("votes") -> j.t = "obj" /\ AllOf(j, "list")
      [] OTHER -> j.t = "obj" /\ AllOf(j, "str")

\* The value has the wrong type for the field, or is a facts mapping that
\* lacks a key.
Corrupt(field, j) ==
    \/ j.t # JGet(DefaultData, field, JNull).t
    \/ /\ field = Key("facts")
       /\ ~(JHas(j, Key("dead")) /\ JHas(j, Key("revealed_roles")))

PartiallyCorrupt(file) ==
    /\ file.t = "obj"
    /\ \A f \in Fields : JHas(file, f) =>
          WellFormed(f, JGet(file, f, JNull)) \/ Corrupt(f, JGet(file, f, JNull))
    /\ \E f \in Fields : JHas(file, f) /\ Corrupt(f, JGet(file, f, JNull))

UpdateOperations ==
    {"append_dialogue", "add_votes", "mark_dead", "reveal_role", "update_suspicions",
     "update_quietness", "set_round_summary", "build_prompt_snapshot"}

C27_CorruptFieldsHoldDefaults ==
    [][ PartiallyCorrupt(mem_file) =>
          /\ pc' = "MemoryStore" =>
                \A f \in Fields :
                    JHas(mem_file, f) /\ Corrupt(f, JGet(mem_file, f, JNull)) =>
                        JGet(mem_data', f, JNull) = JGet(DefaultData, f, JNull)
          /\ pc = "MemoryStore" /\ pc' \in UpdateOperations => raised' = None
      ]_vars

(***************************************************************************)
(* C28: update_suspicions increments the counter speaker->name by one for  *)
(* each processed line "speaker: text", exactly for each living character  *)
(* name other than the speaker that occurs in text together with a marker  *)
(* word; no counter is created or incremented for a dead character, for    *)
(* the speaker itself or for a line without a marker, and no counter       *)
(* decreases.                                                              *)
(***************************************************************************)
Speakers(lines) ==
    {SpeakerPart(_clean_str(lines[i])) :
        i \in {j \in 1..Len(lines) : Contains(Colon, _clean_str(lines[j]))}}

\* The lines in which speaker names the living character cand with a marker.
Accusations(speaker, cand, lines, al) ==
    Cardinality({i \in 1..Len(lines) :
        /\ Contains(Colon, _clean_str(lines[i]))
        /\ SpeakerPart(_clean_str(lines[i])) = speaker
        /\ al[cand]
        /\ Spell(cand) # speaker
        /\ Contains(Spell(cand), TextPart(_clean_str(lines[i])))
        /\ HasMarker(TextPart(_clean_str(lines[i])))})

SuspicionCount(data, key) ==
    JGet(JGet(data, Key("suspicions"), JNull), key, JNum(0)).n

C28_SuspicionsCountLivingNames ==
    [][ pc' = "update_suspicions" /\ raised' = None =>
          /\ \A sp \in Speakers(dialogue_history), c \in AINames :
                SuspicionCount(mem_data', SuspicionKey(sp, Spell(c)))
                  = SuspicionCount(mem_data, SuspicionKey(sp, Spell(c)))
                    + Accusations(sp, c, dialogue_history, alive)
          /\ \A key \in Range(JGet(mem_data', Key("suspicions"), JNull).k) :
                \/ key \in Range(JGet(mem_data, Key("suspicions"), JNull).k)
                \/ \E sp \in Speakers(dialogue_history), c \in AINames :
                      /\ key = SuspicionKey(sp, Spell(c))
                      /\ Accusations(sp, c, dialogue_history, alive) > 0
          /\ \A key \in Range(JGet(mem_data, Key("suspicions"), JNull).k) :
                SuspicionCount(mem_data', key) >= SuspicionCount(mem_data, key)
      ]_vars

(***************************************************************************)
(* C29: in every driver the phase only moves along NIGHT -> DAY_DISCUSS -> *)
(* DAY_VOTE -> (NIGHT of the next round, or END): a day vote is never      *)
(* followed by a return to discussion in the same round, the phase         *)
(* recorded in GameState is the phase the driver is in, and it becomes END *)
(* when a win is detected.                                                 *)
(***************************************************************************)
PhaseMoves ==
    { <<"NIGHT", "DAY_DISCUSS">>, <<"DAY_DISCUSS", "DAY_VOTE">>,
      <<"DAY_VOTE", "NIGHT">>, <<"NIGHT", "END">>, <<"DAY_VOTE", "END">> }

C29_PhaseOrder ==
    [][ pc' # "create_default_game" =>
          /\ DriverPhase' # DriverPhase => <<DriverPhase, DriverPhase'>> \in PhaseMoves
          /\ DriverPhase = "DAY_VOTE" /\ DriverPhase' = "NIGHT" => round' = round + 1
          /\ phase' = DriverPhase'
          /\ (NightStep \/ VoteStep) /\ win' # None /\ win' # win => phase' = "END"
      ]_vars

(***************************************************************************)
(* C30: ai_votes_by_rule makes every living AI player vote for the same    *)
(* target: the allowed candidate named in the most lines of the current    *)
(* day's discussion window only (the lines from the day start index on),   *)
(* ties broken by ascending name; the first allowed candidate when none is *)
(* named, the no-lynch label when there is no candidate; the target is     *)
(* always an allowed choice.                                               *)
(***************************************************************************)
NamedIn(n, lines) ==
    Cardinality({i \in 1..Len(lines) : Contains(Spell(n), lines[i])})

\* The candidate named most in lines, the earlier name among equals.
MostNamed(lines, cands) ==
    CHOOSE c \in cands :
        \A d \in cands \ {c} :
            \/ NamedIn(d, lines) < NamedIn(c, lines)
            \/ NamedIn(d, lines) = NamedIn(c, lines) /\ SortIndex(c) < SortIndex(d)

TodaysTarget(lines, al) ==
    IF LivingAI(al) = {} THEN NoLynchLabel
    ELSE IF NamedIn(MostNamed(lines, LivingAI(al)), lines) > 0
         THEN MostNamed(lines, LivingAI(al))
    ELSE Head(alive_ai(al))

C30_RuleVotesCountToday ==
    [][ driver = "main" /\ VoteStep =>
          \A n \in LivingAI(alive) :
              /\ n \in DOMAIN v_dict'
              /\ v_dict'[n] \in LivingAI(alive) \cup {NoLynchLabel}
              /\ v_dict'[n] = TodaysTarget(DayWindow(dialogue_history,
                                                     dialogue_round_start_idx), alive)
      ]_vars

(***************************************************************************)
(* C34: in the UI drivers, once a win has been detected in do_night or     *)
(* do_vote the game state is final: no later user action other than        *)
(* starting a new game changes an alive flag, the round counter or the     *)
(* event log, and no further night kill or vote tally is performed on      *)
(* that game.                                                              *)
(***************************************************************************)
C34_StateFinalAfterWin ==
    [][ win # None /\ driver \in UIDrivers /\ pc' # "create_default_game" =>
          /\ alive' = alive
          /\ round' = round
          /\ log' = log
          /\ pc' \notin {"night", "vote"}
      ]_vars

(***************************************************************************)
(* C31: in the command-line driver, provided the human ends every          *)
(* discussion and casts every vote, the game always terminates with a win  *)
(* result, for every role assignment, random choice and human input; the   *)
(* round counter starts at 1, only ever increases by 1 after a vote        *)
(* without a win, and never exceeds 3.                                     *)
(***************************************************************************)
EndedWithWin ==
    /\ pc = "exit"
    /\ \/ win \in {"CITIZEN_WIN", "MAFIA_WIN"}
       \/ killed = Human /\ ~alive[Human]

C31_CliTerminatesWithinThreeRounds ==
    /\ round = 1
    /\ [](round \in 1..3)
    /\ [][round' # round => VoteStep /\ round' = round + 1 /\ win' = None]_vars
    /\ <>EndedWithWin

C31_Witness ==
    /\ driver = "main"
    /\ pc = "exit"
    /\ round = 3
    /\ win \in {"CITIZEN_WIN", "MAFIA_WIN"}

(***************************************************************************)
(* C32: in the command-line driver every day vote ends with the execution  *)
(* of exactly one living AI player: whatever the human votes, the result   *)
(* is never no-lynch or a tie, and the human is never executed by vote.    *)
(***************************************************************************)
C32_VoteExecutesOneLivingAI ==
    [][ driver = "main" /\ VoteStep =>
          /\ executed' \in LivingAI(alive)
          /\ Eliminates(executed')
          /\ alive'[Human] = alive[Human]
          /\ \A t \in DOMAIN counter' \ {executed'} : counter'[t] < counter'[executed']
      ]_vars

C32_Witness ==
    /\ driver = "main"
    /\ pc \in {"vote", "exit"}
    /\ vote_input \in {NoLynchLabel, Stranger}
    /\ v_dict[Human] = NoLynchLabel
    /\ executed \in AINames
    /\ ~alive[executed]

(***************************************************************************)
(* C33: in the command-line driver, whenever a night, a discussion or a    *)
(* vote begins no win is due: exactly one mafia is alive, the human is     *)
(* alive and the living citizens strictly outnumber the mafia; so every    *)
(* mafia_kill call with round >= 2 finds a living mafia and a candidate    *)
(* and returns a victim.                                                   *)
(***************************************************************************)
GameOpen ==
    /\ mafia_alive(alive, role) = 1
    /\ alive[Human]
    /\ citizen_alive(alive, role) > mafia_alive(alive, role)

C33_NoWinDueWhenAPhaseBegins ==
    [][ driver = "main" =>
          /\ pc \in {"round_start", "night", "discuss", "to_vote"} => GameOpen
          /\ NightStep /\ round >= 2 =>
                /\ killed' \in Names
                /\ role[killed'] # "MAFIA"
                /\ Eliminates(killed')
      ]_vars

C33_Witness ==
    /\ driver = "main"
    /\ pc = "night"
    /\ round = 3
    /\ killed \in Names
    /\ ~alive[killed]
    /\ GameOpen

====
